---- MODULE Spec2Model ----
(***************************************************************************)
(* SecureChat: the Orchestration Service's round-robin worker selection    *)
(* and its sync-over-async stream bridge (orchestrator_server.py), the     *)
(* worker call it drives, and the Edge Gateway bridge (gateway_server.py). *)
(*                                                                         *)
(* Threads of control modelled:                                            *)
(*   - one gRPC handler thread per DispatchInference call (hpc),           *)
(*   - the single ORCH_LOOP thread: a FIFO of ready callbacks (loopReady)  *)
(*     and the callback it is currently running (loopCur),                 *)
(*   - per /infer call the gateway's stream_worker thread (gpc) and its    *)
(*     async_streamer coroutine (spc).                                     *)
(***************************************************************************)
EXTENDS Integers, Sequences, FiniteSets, TLC

\* ---------------------------------------------------------------- bounds
MaxRequests == 2        \* concurrent DispatchInference calls (Spec, SpecFair)
SerialRequests == 3     \* DispatchInference calls made one after the other (SpecSerial)
E2ERequests == 1        \* /infer calls made one after the other (SpecE2E)
MaxTokens == 2          \* EncryptedTokens one worker call can stream

\* ------------------------------------------------------ program constants
NumWorkers == 2         \* len(self.workers)

Max2(a, b) == IF a >= b THEN a ELSE b
Requests == 1..Max2(MaxRequests, Max2(SerialRequests, E2ERequests))
WorkerIdx == 1..NumWorkers

None == <<"None">>      \* the end-of-stream sentinel (Python None)
NoCallback == [kind |-> "none", r |-> 0]
Pending == <<"pending">>

\* ------------------------------------------------------------ pure parts

\* struct.pack(">I", n): 4 bytes, most significant first
PackLE(n) ==
    << n % 256, (n \div 256) % 256, (n \div 65536) % 256, (n \div 16777216) % 256 >>

pack_I(n) ==
    << (n \div 16777216) % 256, (n \div 65536) % 256, (n \div 256) % 256, n % 256 >>

\* frame = struct.pack(">I", len(token)) + token
Frame(token) == pack_I(Len(token)) \o token

\* the bytes of the i-th EncryptedToken the worker streams for request r
\* (opaque to the orchestrator; lengths 0..2 so that frames differ in length)
TokenOf(r, i) == [j \in 1..((r + i) % 3) |-> 16 * r + i]

\* repr(e) as logged in the error field
Repr(e) == <<"repr", e>>

\* log_event(message, request_id=..., error=..., level=...): the record emitted
LogRecord(message, request_id, level, error) ==
    [event |-> message, request_id |-> request_id, level |-> level, error |-> error]

\* ------------------------------------------- pure parts: bytes and text

\* the outcome of a call: its return value, or the exception it raises
Ok(v) == [ok |-> TRUE, value |-> v]
Raise(e) == [ok |-> FALSE, error |-> e]

\* one byte of an envelope or token with a plain value
Byte(n) == [t |-> "byte", v |-> n]
PlainBytes(s) == [i \in 1..Len(s) |-> Byte(s[i])]

\* b[lo:hi] of a bytes object: the slice is clipped to the bytes there are
Slice(b, lo, hi) == SubSeq(b, lo + 1, IF hi < Len(b) THEN hi ELSE Len(b))

\* struct.unpack("!I", hybrid_blob[:4])
unpack_LE(b) == ((b[4].v * 256 + b[3].v) * 256 + b[2].v) * 256 + b[1].v

unpack_I(b) == ((b[1].v * 256 + b[2].v) * 256 + b[3].v) * 256 + b[4].v

\* str.encode("utf-8") on a text given as its code points (below U+0800)
RECURSIVE encode_utf8(_)
encode_utf8(text) ==
    IF text = << >> THEN << >>
    ELSE LET c == Head(text) IN
         (IF c < 128 THEN << c >> ELSE << 192 + (c \div 64), 128 + (c % 64) >>)
            \o encode_utf8(Tail(text))

\* bytes.decode("utf-8"): the text, or UnicodeDecodeError
RECURSIVE decode_utf8(_)
decode_utf8(b) ==
    IF b = << >> THEN Ok(<< >>)
    ELSE IF b[1] < 128
         THEN LET rest == decode_utf8(Tail(b)) IN
              IF rest.ok THEN Ok(<< b[1] >> \o rest.value) ELSE rest
    ELSE IF b[1] \in 194..223 /\ Len(b) >= 2 /\ b[2] \in 128..191
         THEN LET rest == decode_utf8(Tail(Tail(b))) IN
              IF rest.ok
              THEN Ok(<< (b[1] - 192) * 64 + (b[2] - 128) >> \o rest.value)
              ELSE rest
    ELSE Raise("UnicodeDecodeError")

\* ------------------------------------------------ pure parts: encryption
\* (encryption.py; a ciphertext byte is a symbolic value that records what
\* was sealed and under which key)

RsaBytes == 2           \* bytes of one RSA ciphertext (RSA_KEY_SIZE / 8, scaled down)
NonceLen == 12          \* os.urandom(12)
TagLen == 16            \* the AES-GCM tag appended by AESGCM.encrypt

\* the PEM blobs of keypair k, and the content of a key file that was opened
\* for writing and not written yet
PrivatePem(k) == [kind |-> "private", pair |-> k]
PublicPem(k) == [kind |-> "public", pair |-> k]
EmptyFile == [kind |-> "empty", pair |-> -1]
NoFile == [kind |-> "absent", pair |-> -1]
NonePem == [kind |-> "None", pair |-> -1]

\* serialization.load_pem_public_key / load_pem_private_key
load_pem_public_key(pem) ==
    IF pem.kind = "public" THEN Ok(pem.pair) ELSE Raise("ValueError")
load_pem_private_key(pem) ==
    IF pem.kind = "private" THEN Ok(pem.pair) ELSE Raise("ValueError")

\* public_key.encrypt(aes_key, OAEP) and private_key.decrypt(ct, OAEP)
rsa_encrypt(pair, aes_key) ==
    [i \in 1..RsaBytes |-> [t |-> "rsa", pair |-> pair, key |-> aes_key, i |-> i]]
rsa_decrypt(pair, ct) ==
    IF Len(ct) # RsaBytes THEN Raise("ValueError")
    ELSE IF \A i \in 1..RsaBytes :
               /\ ct[i].t = "rsa"
               /\ ct[i].pair = pair
               /\ ct[i].i = i
               /\ ct[i].key = ct[1].key
         THEN Ok(ct[1].key)
         ELSE Raise("ValueError")

\* the 12 bytes of nonce n
NonceBytes(n) == [i \in 1..NonceLen |-> [t |-> "nonce", n |-> n, i |-> i]]

\* AESGCM(key).encrypt(nonce, plaintext, None): ciphertext then tag
AESGCM_encrypt(key, nonce, plaintext) ==
    [i \in 1..Len(plaintext) |->
        [t |-> "ct", key |-> key, nonce |-> nonce, i |-> i, v |-> plaintext[i]]]
    \o [i \in 1..TagLen |->
        [t |-> "tag", key |-> key, nonce |-> nonce, i |-> i, data |-> plaintext]]

\* AESGCM(key).decrypt(nonce, ciphertext, None): the plaintext, or InvalidTag
AESGCM_decrypt(key, nonce, ciphertext) ==
    IF Len(ciphertext) < TagLen THEN Raise("InvalidTag")
    ELSE LET n == Len(ciphertext) - TagLen
             body == SubSeq(ciphertext, 1, n)
             tag == SubSeq(ciphertext, n + 1, n + TagLen)
         IN IF /\ nonce[1].t = "nonce"
               /\ nonce = NonceBytes(nonce[1].n)
               /\ \A i \in 1..n :
                     /\ body[i].t = "ct"
                     /\ body[i].key = key
                     /\ body[i].nonce = nonce[1].n
                     /\ body[i].i = i
               /\ \A i \in 1..TagLen :
                     tag[i] = [t |-> "tag", key |-> key, nonce |-> nonce[1].n,
                               i |-> i, data |-> [j \in 1..n |-> body[j].v]]
            THEN Ok([j \in 1..n |-> body[j].v])
            ELSE Raise("InvalidTag")

\* encrypt_blob(plaintext, key), lines 261-285, with the nonce it draws
EncryptBlobNoNonce(plaintext, key, nonce) == AESGCM_encrypt(key, nonce, plaintext)

encrypt_blob(plaintext, key, nonce) ==
    NonceBytes(nonce) \o AESGCM_encrypt(key, nonce, plaintext)

\* decrypt_blob(encrypted_blob, key), lines 288-312
decrypt_blob(encrypted_blob, key) ==
    IF Len(encrypted_blob) < NonceLen THEN Raise("ValueError")
    ELSE LET nonce == Slice(encrypted_blob, 0, NonceLen)
             ciphertext == Slice(encrypted_blob, NonceLen, Len(encrypted_blob))
             plain == AESGCM_decrypt(key, nonce, ciphertext)
         IN IF plain.ok THEN plain ELSE Raise("ValueError")

\* hybrid_encrypt_for_worker(plaintext, worker_public_pem), lines 167-204,
\* with the AES key and the nonce it draws
hybrid_encrypt_for_worker(plaintext, worker_public_pem, aes_key, nonce) ==
    LET public_key == load_pem_public_key(worker_public_pem) IN
    IF ~public_key.ok THEN public_key
    ELSE LET aes_cipher_blob == encrypt_blob(plaintext, aes_key, nonce)
             rsa_encrypted_key == rsa_encrypt(public_key.value, aes_key)
             header == PlainBytes(pack_I(Len(rsa_encrypted_key)))
         IN Ok(header \o rsa_encrypted_key \o aes_cipher_blob)

\* hybrid_decrypt_at_worker, lines 231-236: the two length tests
MissingHeader(hybrid_blob) == Len(hybrid_blob) < 4

MissingKeyBytesIgnored(hybrid_blob, key_len) == FALSE

MissingKeyBytes(hybrid_blob, key_len) == Len(hybrid_blob) < 4 + key_len

\* hybrid_decrypt_at_worker(hybrid_blob, worker_private_pem), lines 207-253:
\* what it returns or raises, and the library calls it has made on the way
hybrid_decrypt_trace(hybrid_blob, worker_private_pem) ==
    LET private_key == load_pem_private_key(worker_private_pem)
        loaded == << "load_pem_private_key" >>
    IN
    IF ~private_key.ok THEN [result |-> private_key, calls |-> loaded]
    ELSE IF MissingHeader(hybrid_blob)
         THEN [result |-> Raise("ValueError"), calls |-> loaded]
    ELSE LET key_len == unpack_I(Slice(hybrid_blob, 0, 4)) IN
         IF MissingKeyBytes(hybrid_blob, key_len)
         THEN [result |-> Raise("ValueError"), calls |-> loaded]
         ELSE LET rsa_encrypted_key == Slice(hybrid_blob, 4, 4 + key_len)
                  aes_cipher_blob == Slice(hybrid_blob, 4 + key_len, Len(hybrid_blob))
                  aes_key == rsa_decrypt(private_key.value, rsa_encrypted_key)
              IN IF ~aes_key.ok
                 THEN [result |-> aes_key,
                       calls |-> Append(loaded, "private_key.decrypt")]
                 ELSE [result |-> decrypt_blob(aes_cipher_blob, aes_key.value),
                       calls |-> loaded \o << "private_key.decrypt", "decrypt_blob" >>]

hybrid_decrypt_at_worker(hybrid_blob, worker_private_pem) ==
    hybrid_decrypt_trace(hybrid_blob, worker_private_pem).result

VARIABLES
    rr_index,      \* OrchestratorService._rr_index
    hpc,           \* handler thread of request r: position in DispatchInference
    idx,           \* _choose_worker: local idx of the call made for r
    tmp,           \* _choose_worker: value of _rr_index loaded on line 71
    worker_of,     \* worker (1..NumWorkers) returned to r, 0 before
    queue,         \* the handoff asyncio.Queue of r
    getters,       \* r has a queue.get() suspended on its empty queue
    future,        \* result of frame_future of r
    loopReady,     \* ORCH_LOOP: callbacks scheduled, FIFO
    loopCur,       \* ORCH_LOOP: callback being run
    tpc,           \* async_worker_task of r: position
    wcall,         \* the RunInference call made for r: none/active/ended/failed
    produced,      \* tokens the worker streamed for r
    taskExc,       \* exception left in the task's (discarded) future
    delivered,     \* frames yielded to the DispatchInference caller
    hexit,         \* how the handler of r ended: none/returned/raised
    elog,          \* log events of the orchestrator for request r
    gpc,           \* gateway stream_worker thread of r
    spc,           \* gateway async_streamer of r
    gidx,          \* frames of the response stream read by stream_worker
    gwqueue,       \* gateway asyncio.Queue of r
    gwGetter,      \* async_streamer suspended in queue.get()
    httpOut,       \* chunks yielded to the HTTP caller
    frame_count,   \* gateway counters
    total_bytes,
    glog,          \* infer(): the events the call logged once its stream was over
    STRICT_NO_LOGGING_MODE,     \* config.STRICT_NO_LOGGING_MODE of the process
    ALLOW_HOST_LOGGING_OF_IDS,  \* config.ALLOW_HOST_LOGGING_OF_IDS
    proc,          \* the process a thread of control belongs to
    priv_file,     \* content of keys/worker_rsa_private.pem
    pub_file,      \* content of keys/worker_rsa_public.pem
    _WORKER_PRIVATE_PEM,   \* the module global, one per process
    _WORKER_PUBLIC_PEM,
    kpc,           \* position of a thread in _ensure_worker_rsa_keys
    generated,     \* _ensure_worker_rsa_keys: the local pair generated on line 127
    nextPair,      \* keypairs generated so far (each one is fresh)
    reads,         \* key files opened for reading by a thread
    writes,        \* key files opened for writing by a thread
    kcalls,        \* calls of get_worker_*_key a thread has completed
    state,         \* WorkerStateManager.state
    states,        \* the values state has taken, in order
    wlog,          \* the events the worker process has logged
    wpc,           \* the worker service: position in __init__ / RunInference
    call,          \* number of the RunInference call being served
    request,       \* the EncryptedPayload of that call
    prompt,        \* RunInference: the decoded prompt
    texts,         \* chunks the streamer has produced in this call
    token_count,   \* RunInference: token_count
    emitted,       \* EncryptedTokens yielded in this call
    status,        \* how each call ended: the gRPC status code
    dpc,           \* dispatch() run by a handler thread: position
    req,           \* the InferenceRequest it was given
    req_id,        \* dispatch: request_id
    payload,       \* dispatch: plaintext
    encrypted_blob,    \* dispatch: the outcome of hybrid_encrypt_for_worker
    uuids,         \* identifiers uuid.uuid4() has produced
    call_of,       \* the RunInference call that carried the envelope of a dispatch
    dlog,          \* the events dispatch() has logged in the orchestrator process
    pin,           \* a library function called on its own: the call and its arguments
    pout           \* what that call returned or raised

orchVars == << rr_index, hpc, idx, tmp, worker_of, queue, getters, future,
               loopReady, loopCur, tpc, wcall, produced, taskExc, delivered,
               hexit, elog >>
gwVars == << gpc, spc, gidx, gwqueue, gwGetter, httpOut, frame_count, total_bytes,
             glog >>
vars == << rr_index, hpc, idx, tmp, worker_of, queue, getters, future,
           loopReady, loopCur, tpc, wcall, produced, taskExc, delivered,
           hexit, elog, gpc, spc, gidx, gwqueue, gwGetter, httpOut,
           frame_count, total_bytes, glog,
           STRICT_NO_LOGGING_MODE, ALLOW_HOST_LOGGING_OF_IDS,
           proc, priv_file, pub_file, _WORKER_PRIVATE_PEM, _WORKER_PUBLIC_PEM,
           kpc, generated, nextPair, reads, writes, kcalls,
           state, states, wlog, wpc, call, request, prompt, texts,
           token_count, emitted, status,
           dpc, req, req_id, payload, encrypted_blob, uuids, call_of, dlog,
           pin, pout >>
cfgVars == << STRICT_NO_LOGGING_MODE, ALLOW_HOST_LOGGING_OF_IDS >>
keyVars == << proc, priv_file, pub_file, _WORKER_PRIVATE_PEM, _WORKER_PUBLIC_PEM,
              kpc, generated, nextPair, reads, writes, kcalls >>
wkVars == << state, states, wlog, wpc, call, request, prompt, texts,
             token_count, emitted, status >>
dispVars == << dpc, req, req_id, payload, encrypted_blob, uuids, call_of, dlog >>
pureVars == << pin, pout >>
extVars == << cfgVars, keyVars, wkVars, dispVars, pureVars >>

\* no library function has been called on its own
NoCall == [op |-> "none"]
InitPure ==
    /\ pin = NoCall
    /\ pout = NoCall

\* ------------------------------------------------------------------ Init

\* OrchestratorService.__init__ and the per-call locals before their first use
InitOrch ==
    /\ rr_index = 0
    /\ idx = [r \in Requests |-> -1]
    /\ tmp = [r \in Requests |-> -1]
    /\ worker_of = [r \in Requests |-> 0]
    /\ queue = [r \in Requests |-> << >>]
    /\ getters = [r \in Requests |-> FALSE]
    /\ future = [r \in Requests |-> Pending]
    /\ loopReady = << >>
    /\ loopCur = NoCallback
    /\ tpc = [r \in Requests |-> "new"]
    /\ wcall = [r \in Requests |-> "none"]
    /\ produced = [r \in Requests |-> << >>]
    /\ taskExc = [r \in Requests |-> "none"]
    /\ delivered = [r \in Requests |-> << >>]
    /\ hexit = [r \in Requests |-> "none"]
    /\ elog = [r \in Requests |-> << >>]

InitGw ==
    /\ gidx = [r \in Requests |-> 0]
    /\ gwqueue = [r \in Requests |-> << >>]
    /\ gwGetter = [r \in Requests |-> FALSE]
    /\ httpOut = [r \in Requests |-> << >>]
    /\ frame_count = [r \in Requests |-> 0]
    /\ total_bytes = [r \in Requests |-> 0]
    /\ glog = [r \in Requests |-> << >>]

\* ------------------------------------------------ handler thread of r
\* the cursor update of _choose_worker line 71
NextIndexUnbounded(i) == i + 1

NextIndexStuck(i) == i % NumWorkers

NextIndex(i) == (i + 1) % NumWorkers

\* DispatchInference lines 84-93 and _choose_worker line 70: dispatch(), the
\* received-request event, then idx = self._rr_index % len(self.workers).
\* Everything before the read of the cursor is local to the call.
ChooseIdx(r) ==
    /\ hpc[r] = "idle"
    /\ elog' = [elog EXCEPT ![r] = @ \o
                 << LogRecord("orchestrator_encrypted_payload", r, "info", None),
                    LogRecord("orchestrator_received_request", r, "info", None) >>]
    /\ idx' = [idx EXCEPT ![r] = rr_index % NumWorkers]
    /\ hpc' = [hpc EXCEPT ![r] = "choose_load"]
    /\ UNCHANGED << rr_index, tmp, worker_of, queue, getters, future,
                    loopReady, loopCur, tpc, wcall, produced, taskExc, delivered,
                    hexit >>
    /\ UNCHANGED << gwVars, extVars >>

\* _choose_worker line 71, the load of self._rr_index
ChooseLoad(r) ==
    /\ hpc[r] = "choose_load"
    /\ tmp' = [tmp EXCEPT ![r] = rr_index]
    /\ hpc' = [hpc EXCEPT ![r] = "choose_store"]
    /\ UNCHANGED << rr_index, idx, worker_of, queue, getters, future,
                    loopReady, loopCur, tpc, wcall, produced, taskExc, delivered,
                    hexit, elog >>
    /\ UNCHANGED << gwVars, extVars >>

TaskCb(r) == [kind |-> "task", r |-> r]
GetCb(r) == [kind |-> "get", r |-> r]
WakeCb(r) == [kind |-> "wake", r |-> r]

\* _choose_worker line 71, the store, line 72: return self.workers[idx]; then
\* lines 95-140: the handoff queue is created and async_worker_task is handed
\* to ORCH_LOOP with run_coroutine_threadsafe
ChooseStore(r) ==
    /\ hpc[r] = "choose_store"
    /\ rr_index' = NextIndex(tmp[r])
    /\ worker_of' = [worker_of EXCEPT ![r] = idx[r] + 1]
    /\ tmp' = [tmp EXCEPT ![r] = -1]
    /\ loopReady' = Append(loopReady, TaskCb(r))
    /\ tpc' = [tpc EXCEPT ![r] = "scheduled"]
    /\ hpc' = [hpc EXCEPT ![r] = "pull"]
    /\ UNCHANGED << idx, queue, getters, future,
                    loopCur, wcall, produced, taskExc, delivered, hexit, elog >>
    /\ UNCHANGED << gwVars, extVars >>

\* line 147, "if frame is None" (gateway_server.py line 67, "if chunk is
\* None"): the test for the sentinel is an identity test with None, which no
\* bytes object passes, whatever its length or content
IsSentinelOrEmpty(item) == item = None \/ item = Frame(<< >>)

IsSentinel(item) == item = None

\* line 144, first pass of the loop: the first queue.get() is handed to
\* ORCH_LOOP; line 145 then blocks on frame_future.result()
Pull(r) ==
    /\ hpc[r] = "pull"
    /\ loopReady' = Append(loopReady, GetCb(r))
    /\ hpc' = [hpc EXCEPT ![r] = "wait"]
    /\ UNCHANGED << rr_index, idx, tmp, worker_of, queue, getters, future,
                    loopCur, tpc, wcall, produced, taskExc, delivered, hexit, elog >>
    /\ UNCHANGED << gwVars, extVars >>

\* lines 144-156: frame_future.result() returned. The sentinel ends the
\* generator after the completion event; any other item is yielded to the
\* caller, who pulls again, and the next queue.get() is handed to ORCH_LOOP
Result(r) ==
    /\ hpc[r] = "wait"
    /\ future[r] # Pending
    /\ IF IsSentinel(future[r])
       THEN /\ hpc' = [hpc EXCEPT ![r] = "done"]
            /\ hexit' = [hexit EXCEPT ![r] = "returned"]
            /\ elog' = [elog EXCEPT ![r] = Append(@,
                          LogRecord("orchestrator_request_completed", r, "info", None))]
            /\ UNCHANGED << delivered, loopReady >>
       ELSE /\ delivered' = [delivered EXCEPT ![r] = Append(@, future[r])]
            /\ loopReady' = Append(loopReady, GetCb(r))
            /\ UNCHANGED << hpc, hexit, elog >>
    /\ future' = [future EXCEPT ![r] = Pending]
    /\ UNCHANGED << rr_index, idx, tmp, worker_of, queue, getters,
                    loopCur, tpc, wcall, produced, taskExc >>
    /\ UNCHANGED << gwVars, extVars >>

\* ------------------------------------------------- the ORCH_LOOP thread

\* line 95, asyncio.Queue() with the default maxsize 0: Queue.full() is never
\* true, so the 'while self.full()' of Queue.put never suspends the task
QueueFullAtOne(q) == Len(q) >= 1

QueueFull(q) == FALSE

\* line 133, await queue.put(frame): the queue is unbounded, put never
\* suspends and appends at the tail
QueuePutFront(q, frame) == << frame >> \o q

QueuePut(q, frame) == Append(q, frame)

\* line 137, the finally clause: await queue.put(None)
FinallyPutNothing(q) == q

FinallyPutReset(q) == << None >>

FinallyPut(q) == Append(q, None)

\* Queue._wakeup_next: a put on a queue with a suspended getter reschedules it
Wake(ready, r) == IF getters[r] THEN Append(ready, WakeCb(r)) ELSE ready

\* line 130, "for token_msg in worker_stream": a synchronous iteration inside
\* the coroutine; while it blocks on the worker the loop thread stays in the
\* task's callback
LoopWhileIteratingReleased(cb) == NoCallback

LoopWhileIterating(cb) == cb

LoopIdle == loopCur = NoCallback

CallingWorkerEvents(r) ==
    << LogRecord("orchestrator_calling_worker", r, "info", None),
       LogRecord("worker_client_run_inference", r, "info", None),
       LogRecord("orchestrator_calling_worker", r, "info", None) >>

\* lines 99-122: the task starts and worker_client.run_inference raises: the
\* error event is logged, then the finally clause pushes the sentinel
TaskCallRaises(r) ==
    /\ LoopIdle
    /\ loopReady # << >>
    /\ Head(loopReady) = TaskCb(r)
    /\ elog' = [elog EXCEPT ![r] = @ \o CallingWorkerEvents(r) \o
                 << LogRecord("orchestrator_worker_rpc_error", r, "error",
                              Repr("call_error")) >>]
    /\ queue' = [queue EXCEPT ![r] = FinallyPut(@)]
    /\ loopReady' = Wake(Tail(loopReady), r)
    /\ getters' = [getters EXCEPT ![r] = FALSE]
    /\ tpc' = [tpc EXCEPT ![r] = "done"]
    /\ wcall' = [wcall EXCEPT ![r] = "call_failed"]
    /\ UNCHANGED << rr_index, hpc, idx, tmp, worker_of, future, loopCur,
                    produced, taskExc, delivered, hexit >>
    /\ UNCHANGED << gwVars, extVars >>

\* lines 99-128: the task starts, run_inference returns the response stream of
\* a RunInference call to the chosen worker
TaskCallReturns(r) ==
    /\ LoopIdle
    /\ loopReady # << >>
    /\ Head(loopReady) = TaskCb(r)
    /\ elog' = [elog EXCEPT ![r] = @ \o CallingWorkerEvents(r) \o
                 << LogRecord("orchestrator_streaming_tokens", r, "info", None) >>]
    /\ loopReady' = Tail(loopReady)
    /\ loopCur' = LoopWhileIterating(TaskCb(r))
    /\ tpc' = [tpc EXCEPT ![r] = "iterate"]
    /\ wcall' = [wcall EXCEPT ![r] = "active"]
    /\ UNCHANGED << rr_index, hpc, idx, tmp, worker_of, queue, getters,
                    future, produced, taskExc, delivered, hexit >>
    /\ UNCHANGED << gwVars, extVars >>

\* lines 130-133: the worker streams its next EncryptedToken; it is framed and
\* put on the queue
TaskRecvToken(r) ==
    /\ tpc[r] = "iterate"
    /\ loopCur = LoopWhileIterating(TaskCb(r))
    /\ Len(produced[r]) < MaxTokens
    /\ ~QueueFull(queue[r])
    /\ LET token == TokenOf(r, Len(produced[r]) + 1) IN
         /\ produced' = [produced EXCEPT ![r] = Append(@, token)]
         /\ queue' = [queue EXCEPT ![r] = QueuePut(@, Frame(token))]
    /\ loopReady' = Wake(loopReady, r)
    /\ getters' = [getters EXCEPT ![r] = FALSE]
    /\ UNCHANGED << rr_index, hpc, idx, tmp, worker_of, future, loopCur,
                    tpc, wcall, taskExc, delivered, hexit, elog >>
    /\ UNCHANGED << gwVars, extVars >>

\* lines 130, 135-137: the worker's stream ends; the finally clause pushes the
\* sentinel and the task is over
TaskStreamEnd(r) ==
    /\ tpc[r] = "iterate"
    /\ loopCur = LoopWhileIterating(TaskCb(r))
    /\ ~QueueFull(queue[r])
    /\ queue' = [queue EXCEPT ![r] = FinallyPut(@)]
    /\ loopReady' = Wake(loopReady, r)
    /\ getters' = [getters EXCEPT ![r] = FALSE]
    /\ loopCur' = NoCallback
    /\ tpc' = [tpc EXCEPT ![r] = "done"]
    /\ wcall' = [wcall EXCEPT ![r] = "ended"]
    /\ UNCHANGED << rr_index, hpc, idx, tmp, worker_of, future,
                    produced, taskExc, delivered, hexit, elog >>
    /\ UNCHANGED << gwVars, extVars >>

\* lines 130, 135-137: iterating the worker's stream raises (worker
\* unreachable, call aborted by the worker); no except clause covers the
\* loop, so only the finally clause runs and the exception ends in the
\* task's future, which line 140 discards
TaskStreamRaises(r) ==
    /\ tpc[r] = "iterate"
    /\ loopCur = LoopWhileIterating(TaskCb(r))
    /\ ~QueueFull(queue[r])
    /\ queue' = [queue EXCEPT ![r] = FinallyPut(@)]
    /\ loopReady' = Wake(loopReady, r)
    /\ getters' = [getters EXCEPT ![r] = FALSE]
    /\ loopCur' = NoCallback
    /\ tpc' = [tpc EXCEPT ![r] = "done"]
    /\ wcall' = [wcall EXCEPT ![r] = "failed"]
    /\ taskExc' = [taskExc EXCEPT ![r] = "stream_error"]
    /\ UNCHANGED << rr_index, hpc, idx, tmp, worker_of, future,
                    produced, delivered, hexit, elog >>
    /\ UNCHANGED << gwVars, extVars >>

\* asyncio.Queue.get run for r on the loop (line 144), first run or resumed:
\* an empty queue suspends the coroutine as a getter, otherwise the head item
\* becomes the result of frame_future
GetRun(r) ==
    /\ LoopIdle
    /\ loopReady # << >>
    /\ Head(loopReady) \in {GetCb(r), WakeCb(r)}
    /\ loopReady' = Tail(loopReady)
    /\ IF queue[r] = << >>
       THEN /\ getters' = [getters EXCEPT ![r] = TRUE]
            /\ UNCHANGED << queue, future >>
       ELSE /\ future' = [future EXCEPT ![r] = Head(queue[r])]
            /\ queue' = [queue EXCEPT ![r] = Tail(@)]
            /\ UNCHANGED getters
    /\ UNCHANGED << rr_index, hpc, idx, tmp, worker_of, loopCur, tpc,
                    wcall, produced, taskExc, delivered, hexit, elog >>
    /\ UNCHANGED << gwVars, extVars >>

\* ------------------------------- the caller of DispatchInference leaves
\* The caller cancels the call while the handler has started the bridging
\* task. Nothing interrupts the handler thread: it goes on to its next yield
\* (line 150), where the generator is closed, or to the sentinel, where it
\* returns; async_worker_task is given no signal.
CallerDisconnects(r) ==
    /\ hpc[r] \in { "pull", "wait" }
    /\ hpc' = [hpc EXCEPT ![r] = IF hpc[r] = "pull" THEN "pull_gone" ELSE "wait_gone"]
    /\ UNCHANGED << rr_index, idx, tmp, worker_of, queue, getters, future,
                    loopReady, loopCur, tpc, wcall, produced, taskExc, delivered,
                    hexit, elog >>
    /\ UNCHANGED << gwVars, extVars >>

\* line 144 after the caller left, first pass of the loop
PullGone(r) ==
    /\ hpc[r] = "pull_gone"
    /\ loopReady' = Append(loopReady, GetCb(r))
    /\ hpc' = [hpc EXCEPT ![r] = "wait_gone"]
    /\ UNCHANGED << rr_index, idx, tmp, worker_of, queue, getters, future,
                    loopCur, tpc, wcall, produced, taskExc, delivered, hexit, elog >>
    /\ UNCHANGED << gwVars, extVars >>

\* lines 145-156 after the caller left: frame_future.result() returned. The
\* sentinel ends the generator after the completion event; at the yield of
\* any other item the generator is closed and nothing more is run
ResultGone(r) ==
    /\ hpc[r] = "wait_gone"
    /\ future[r] # Pending
    /\ hpc' = [hpc EXCEPT ![r] = "done"]
    /\ IF IsSentinel(future[r])
       THEN /\ hexit' = [hexit EXCEPT ![r] = "returned"]
            /\ elog' = [elog EXCEPT ![r] = Append(@,
                          LogRecord("orchestrator_request_completed", r, "info", None))]
       ELSE /\ hexit' = [hexit EXCEPT ![r] = "closed"]
            /\ UNCHANGED elog
    /\ future' = [future EXCEPT ![r] = Pending]
    /\ UNCHANGED << rr_index, idx, tmp, worker_of, queue, getters, loopReady,
                    loopCur, tpc, wcall, produced, taskExc, delivered >>
    /\ UNCHANGED << gwVars, extVars >>

\* -------------------------------------------------- the Edge Gateway
\* gateway_server.py line 51 (and 56): queue.put_nowait(item), called from the
\* stream_worker thread; a getter registered on the queue is woken
GwPutDrop(q, item) == IF item = None THEN Append(q, item) ELSE q

GwPut(q, item) == Append(q, item)

\* line 35, response_stream = await orchestrator.dispatch_inference(...): a
\* local of the call, captured by this call's stream_worker closure; it is
\* the response stream of the DispatchInference call made for this request
ResponseStreamOfFirst(r) == delivered[1]

ResponseStream(r) == delivered[r]

\* infer(), lines 21-60 and 97: the request id, orchestrator.dispatch_inference
\* starts the DispatchInference call, the queue is created, stream_worker is
\* launched in the executor and the StreamingResponse starts async_streamer
GatewayInfer(r) ==
    /\ gpc[r] = "http"
    /\ hpc[r] = "nocall"
    /\ hpc' = [hpc EXCEPT ![r] = "idle"]
    /\ gpc' = [gpc EXCEPT ![r] = "iterate"]
    /\ spc' = [spc EXCEPT ![r] = "get"]
    /\ UNCHANGED << rr_index, idx, tmp, worker_of, queue, getters, future,
                    loopReady, loopCur, tpc, wcall, produced, taskExc, delivered,
                    hexit, elog >>
    /\ UNCHANGED << gidx, gwqueue, gwGetter, httpOut, frame_count, total_bytes,
                    glog >>
    /\ UNCHANGED extVars

\* the wake-up done by put_nowait: a registered getter is resumed
GwWake(r) ==
    IF gwGetter[r]
    THEN /\ gwGetter' = [gwGetter EXCEPT ![r] = FALSE]
         /\ spc' = [spc EXCEPT ![r] = "get"]
    ELSE UNCHANGED << gwGetter, spc >>

\* stream_worker lines 50-51: the next message of the DispatchInference
\* response stream is put on the gateway queue
GwRecv(r) ==
    /\ gpc[r] = "iterate"
    /\ gidx[r] < Len(ResponseStream(r))
    /\ gidx' = [gidx EXCEPT ![r] = @ + 1]
    /\ gwqueue' = [gwqueue EXCEPT ![r] = GwPut(@, ResponseStream(r)[gidx[r] + 1])]
    /\ GwWake(r)
    /\ UNCHANGED << orchVars, extVars >>
    /\ UNCHANGED << gpc, httpOut, frame_count, total_bytes, glog >>

\* stream_worker lines 50, 54-56: the response stream ends after the handler
\* returned; the finally clause puts the sentinel
GwStreamEnd(r) ==
    /\ gpc[r] = "iterate"
    /\ hpc[r] = "done"
    /\ gidx[r] = Len(ResponseStream(r))
    /\ gwqueue' = [gwqueue EXCEPT ![r] = GwPut(@, None)]
    /\ gpc' = [gpc EXCEPT ![r] = "ended"]
    /\ GwWake(r)
    /\ UNCHANGED << orchVars, extVars >>
    /\ UNCHANGED << gidx, httpOut, frame_count, total_bytes, glog >>

\* stream_worker lines 52-56: iterating the response stream raises (the call
\* to the orchestrator failed); the error is printed and the finally clause
\* puts the sentinel
GwStreamRaises(r) ==
    /\ gpc[r] = "iterate"
    /\ gwqueue' = [gwqueue EXCEPT ![r] = GwPut(@, None)]
    /\ gpc' = [gpc EXCEPT ![r] = "raised"]
    /\ GwWake(r)
    /\ UNCHANGED << orchVars, extVars >>
    /\ UNCHANGED << gidx, httpOut, frame_count, total_bytes, glog >>

\* line 73, total_bytes += len(chunk): the chunk is the whole frame, header
\* included
PayloadLen(chunk) == Len(chunk) - 4

len(chunk) == Len(chunk)

\* str() of a counter, as lines 91-92 put it in the metrics event
str(n) == ToString(n)

\* an event of the gateway with the extra fields that reach the log (the
\* elapsed time, total_ms, is left out: time is not part of this model)
GatewayEvent(message, request_id, extra) ==
    [event |-> message, request_id |-> request_id, extra |-> extra]

\* async_streamer lines 66-95 with asyncio.Queue.get: a non-empty queue gives
\* its head item, the sentinel ends the response after the completion event
\* and the metrics event (lines 77-95), any other
\* chunk is counted and yielded to the HTTP caller; an empty queue makes the
\* coroutine go on to register as a getter
StreamerGet(r) ==
    /\ spc[r] = "get"
    /\ IF gwqueue[r] = << >>
       THEN /\ spc' = [spc EXCEPT ![r] = "register"]
            /\ UNCHANGED << gwqueue, httpOut, frame_count, total_bytes, glog >>
       ELSE /\ gwqueue' = [gwqueue EXCEPT ![r] = Tail(@)]
            /\ IF IsSentinel(Head(gwqueue[r]))
               THEN /\ spc' = [spc EXCEPT ![r] = "done"]
                    /\ glog' = [glog EXCEPT ![r] = @ \o
                          << GatewayEvent("gateway_streaming_completed", r, << >>),
                             GatewayEvent("gateway_end_to_end_metrics", r,
                                << << "frames", str(frame_count[r]) >>,
                                   << "bytes", str(total_bytes[r]) >> >>) >>]
                    /\ UNCHANGED << httpOut, frame_count, total_bytes >>
               ELSE /\ httpOut' = [httpOut EXCEPT ![r] = Append(@, Head(gwqueue[r]))]
                    /\ frame_count' = [frame_count EXCEPT ![r] = @ + 1]
                    /\ total_bytes' = [total_bytes EXCEPT ![r] = @ + len(Head(gwqueue[r]))]
                    /\ UNCHANGED << spc, glog >>
    /\ UNCHANGED << orchVars, extVars >>
    /\ UNCHANGED << gpc, gidx, gwGetter >>

\* asyncio.Queue.get, after it found the queue empty: the getter future is
\* appended to the queue's getters and the coroutine suspends. put_nowait runs
\* on another thread without synchronisation, so an item put between the
\* emptiness test and this registration wakes nobody
StreamerSuspend(r) ==
    /\ spc[r] = "register"
    /\ gwGetter' = [gwGetter EXCEPT ![r] = TRUE]
    /\ spc' = [spc EXCEPT ![r] = "suspended"]
    /\ UNCHANGED << orchVars, extVars >>
    /\ UNCHANGED << gpc, gidx, gwqueue, httpOut, frame_count, total_bytes, glog >>

GwStep(r) ==
    \/ GwRecv(r)
    \/ GwStreamEnd(r)
    \/ GwStreamRaises(r)
    \/ StreamerGet(r)
    \/ StreamerSuspend(r)

\* ------------------------------------------------------ key custody
\* encryption.py lines 52-159. The key files are shared by every process on
\* the host; the cache (_WORKER_PRIVATE_PEM, _WORKER_PUBLIC_PEM) is one per
\* process and shared by the threads of that process.

MaxAgents == 3          \* threads of control that call the key-custody operation
MaxKeyCalls == 2        \* calls of get_worker_*_key made by one of them

Agents == 1..MaxAgents
WorkerName(w) == "worker-" \o ToString(w)
Procs == {"orchestrator"} \cup {WorkerName(w) : w \in WorkerIdx}

\* module import, lines 56-57: nothing cached, nothing generated
InitCaches ==
    /\ _WORKER_PRIVATE_PEM = [p \in Procs |-> NonePem]
    /\ _WORKER_PUBLIC_PEM = [p \in Procs |-> NonePem]
    /\ generated = [a \in Agents |-> -1]
    /\ nextPair = 1
    /\ reads = [a \in Agents |-> 0]
    /\ writes = [a \in Agents |-> 0]
    /\ kcalls = [a \in Agents |-> 0]

\* first run: no key file exists
InitKeys ==
    /\ priv_file = NoFile
    /\ pub_file = NoFile
    /\ InitCaches

\* the key files of keypair 0, persisted by an earlier run
Persisted ==
    /\ priv_file = PrivatePem(0)
    /\ pub_file = PublicPem(0)

\* get_worker_private_key / get_worker_public_key, lines 145 and 157: the
\* call of _ensure_worker_rsa_keys()
EnsureCalled(a) == [kpc EXCEPT ![a] = "called"]

\* lines 113-114: the cache is consulted first
CacheNeverHit(a) == FALSE

CacheHit(a) ==
    /\ _WORKER_PRIVATE_PEM[proc[a]] # NonePem
    /\ _WORKER_PUBLIC_PEM[proc[a]] # NonePem

EnsureCheck(a) ==
    /\ kpc[a] = "called"
    /\ kpc' = [kpc EXCEPT ![a] = IF CacheHit(a) THEN "returned" ELSE "exists"]
    /\ UNCHANGED << proc, priv_file, pub_file, _WORKER_PRIVATE_PEM,
                    _WORKER_PUBLIC_PEM, generated, nextPair, reads, writes, kcalls >>
    /\ UNCHANGED << pureVars, orchVars, gwVars, cfgVars, wkVars, dispVars >>

\* line 118: os.path.exists(priv_path) and os.path.exists(pub_path)
BothExist == priv_file # NoFile /\ pub_file # NoFile

\* line 118 true: the load branch is entered
EnsureLoad(a) ==
    /\ kpc[a] = "exists"
    /\ BothExist
    /\ kpc' = [kpc EXCEPT ![a] = "read_priv"]
    /\ UNCHANGED << proc, priv_file, pub_file, _WORKER_PRIVATE_PEM,
                    _WORKER_PUBLIC_PEM, generated, nextPair, reads, writes, kcalls >>
    /\ UNCHANGED << pureVars, orchVars, gwVars, cfgVars, wkVars, dispVars >>

\* line 118 false, line 127: private_pem, public_pem = _generate_rsa_keypair()
EnsureGenerate(a) ==
    /\ kpc[a] = "exists"
    /\ ~BothExist
    /\ generated' = [generated EXCEPT ![a] = nextPair]
    /\ nextPair' = nextPair + 1
    /\ kpc' = [kpc EXCEPT ![a] = "open_priv"]
    /\ UNCHANGED << proc, priv_file, pub_file, _WORKER_PRIVATE_PEM,
                    _WORKER_PUBLIC_PEM, reads, writes, kcalls >>
    /\ UNCHANGED << pureVars, orchVars, gwVars, cfgVars, wkVars, dispVars >>

\* lines 120-121: with open(priv_path, "rb") as f: _WORKER_PRIVATE_PEM = f.read()
ReadPriv(a) ==
    /\ kpc[a] = "read_priv"
    /\ _WORKER_PRIVATE_PEM' = [_WORKER_PRIVATE_PEM EXCEPT ![proc[a]] = priv_file]
    /\ reads' = [reads EXCEPT ![a] = @ + 1]
    /\ kpc' = [kpc EXCEPT ![a] = "read_pub"]
    /\ UNCHANGED << proc, priv_file, pub_file, _WORKER_PUBLIC_PEM,
                    generated, nextPair, writes, kcalls >>
    /\ UNCHANGED << pureVars, orchVars, gwVars, cfgVars, wkVars, dispVars >>

\* lines 122-124: _WORKER_PUBLIC_PEM = f.read(); return
ReadPub(a) ==
    /\ kpc[a] = "read_pub"
    /\ _WORKER_PUBLIC_PEM' = [_WORKER_PUBLIC_PEM EXCEPT ![proc[a]] = pub_file]
    /\ reads' = [reads EXCEPT ![a] = @ + 1]
    /\ kpc' = [kpc EXCEPT ![a] = "returned"]
    /\ UNCHANGED << proc, priv_file, pub_file, _WORKER_PRIVATE_PEM,
                    generated, nextPair, writes, kcalls >>
    /\ UNCHANGED << pureVars, orchVars, gwVars, cfgVars, wkVars, dispVars >>

\* line 129: open(priv_path, "wb") creates the file or truncates it
OpenPriv(a) ==
    /\ kpc[a] = "open_priv"
    /\ priv_file' = EmptyFile
    /\ writes' = [writes EXCEPT ![a] = @ + 1]
    /\ kpc' = [kpc EXCEPT ![a] = "write_priv"]
    /\ UNCHANGED << proc, pub_file, _WORKER_PRIVATE_PEM, _WORKER_PUBLIC_PEM,
                    generated, nextPair, reads, kcalls >>
    /\ UNCHANGED << pureVars, orchVars, gwVars, cfgVars, wkVars, dispVars >>

\* line 130 and the end of the with block: the buffered write reaches the file
WritePriv(a) ==
    /\ kpc[a] = "write_priv"
    /\ priv_file' = PrivatePem(generated[a])
    /\ kpc' = [kpc EXCEPT ![a] = "open_pub"]
    /\ UNCHANGED << proc, pub_file, _WORKER_PRIVATE_PEM, _WORKER_PUBLIC_PEM,
                    generated, nextPair, reads, writes, kcalls >>
    /\ UNCHANGED << pureVars, orchVars, gwVars, cfgVars, wkVars, dispVars >>

\* line 131
OpenPub(a) ==
    /\ kpc[a] = "open_pub"
    /\ pub_file' = EmptyFile
    /\ writes' = [writes EXCEPT ![a] = @ + 1]
    /\ kpc' = [kpc EXCEPT ![a] = "write_pub"]
    /\ UNCHANGED << proc, priv_file, _WORKER_PRIVATE_PEM, _WORKER_PUBLIC_PEM,
                    generated, nextPair, reads, kcalls >>
    /\ UNCHANGED << pureVars, orchVars, gwVars, cfgVars, wkVars, dispVars >>

\* line 132
WritePub(a) ==
    /\ kpc[a] = "write_pub"
    /\ pub_file' = PublicPem(generated[a])
    /\ kpc' = [kpc EXCEPT ![a] = "store_priv"]
    /\ UNCHANGED << proc, priv_file, _WORKER_PRIVATE_PEM, _WORKER_PUBLIC_PEM,
                    generated, nextPair, reads, writes, kcalls >>
    /\ UNCHANGED << pureVars, orchVars, gwVars, cfgVars, wkVars, dispVars >>

\* line 134: _WORKER_PRIVATE_PEM = private_pem
StorePriv(a) ==
    /\ kpc[a] = "store_priv"
    /\ _WORKER_PRIVATE_PEM' =
          [_WORKER_PRIVATE_PEM EXCEPT ![proc[a]] = PrivatePem(generated[a])]
    /\ kpc' = [kpc EXCEPT ![a] = "store_pub"]
    /\ UNCHANGED << proc, priv_file, pub_file, _WORKER_PUBLIC_PEM,
                    generated, nextPair, reads, writes, kcalls >>
    /\ UNCHANGED << pureVars, orchVars, gwVars, cfgVars, wkVars, dispVars >>

\* line 135: _WORKER_PUBLIC_PEM = public_pem, and the function returns
StorePub(a) ==
    /\ kpc[a] = "store_pub"
    /\ _WORKER_PUBLIC_PEM' =
          [_WORKER_PUBLIC_PEM EXCEPT ![proc[a]] = PublicPem(generated[a])]
    /\ kpc' = [kpc EXCEPT ![a] = "returned"]
    /\ UNCHANGED << proc, priv_file, pub_file, _WORKER_PRIVATE_PEM,
                    generated, nextPair, reads, writes, kcalls >>
    /\ UNCHANGED << pureVars, orchVars, gwVars, cfgVars, wkVars, dispVars >>

\* _ensure_worker_rsa_keys, step by step, by thread a
EnsureStep(a) ==
    \/ EnsureCheck(a)
    \/ EnsureLoad(a)
    \/ EnsureGenerate(a)
    \/ ReadPriv(a)
    \/ ReadPub(a)
    \/ OpenPriv(a)
    \/ WritePriv(a)
    \/ OpenPub(a)
    \/ WritePub(a)
    \/ StorePriv(a)
    \/ StorePub(a)

\* get_worker_private_key / get_worker_public_key, lines 138-159, called by a
\* thread that does nothing else: the call, and the return of the cached PEM
GetKeyCall(a) ==
    /\ kpc[a] = "idle"
    /\ kcalls[a] < MaxKeyCalls
    /\ kpc' = EnsureCalled(a)
    /\ UNCHANGED << proc, priv_file, pub_file, _WORKER_PRIVATE_PEM,
                    _WORKER_PUBLIC_PEM, generated, nextPair, reads, writes, kcalls >>
    /\ UNCHANGED << pureVars, orchVars, gwVars, cfgVars, wkVars, dispVars >>

GetKeyReturn(a) ==
    /\ kpc[a] = "returned"
    /\ kpc' = [kpc EXCEPT ![a] = "idle"]
    /\ kcalls' = [kcalls EXCEPT ![a] = @ + 1]
    /\ UNCHANGED << proc, priv_file, pub_file, _WORKER_PRIVATE_PEM,
                    _WORKER_PUBLIC_PEM, generated, nextPair, reads, writes >>
    /\ UNCHANGED << pureVars, orchVars, gwVars, cfgVars, wkVars, dispVars >>

\* ------------------------------------------------------ log_event
\* logging_utils.py. An event is the record log_event hands to the logger:
\* its message, its level and its key=value fields in order.

NoneArg == "<None>"     \* an argument left at its default None
Truthy(s) == s # "" /\ s # NoneArg

NoSensitiveKeys == { }

SENSITIVE_KEYS ==
    { "prompt", "full_prompt", "raw_prompt", "input_text", "user_message",
      "response", "raw_output", "raw_response", "rag_context", "plaintext",
      "decrypted", "tokens", "token_ids", "embedding", "embeddings" }

MaxValueLen == 256      \* len(value) > 256

\* _sanitize_extra, line 118: isinstance(value, str) and len(value) > 256
TooLongFromLimit(value) == Len(value) >= MaxValueLen

TooLong(value) == Len(value) > MaxValueLen

\* _sanitize_extra, lines 103-122: whether an entry of extra is kept
KeepNothing(kv) == FALSE

_keep(kv) ==
    /\ kv[1] \notin SENSITIVE_KEYS
    /\ ~(STRICT_NO_LOGGING_MODE /\ kv[1] = "tenant_id" /\ ~ALLOW_HOST_LOGGING_OF_IDS)
    /\ ~(STRICT_NO_LOGGING_MODE /\ TooLong(kv[2]))

_sanitize_extra(extra) == SelectSeq(extra, _keep)

LevelAlwaysInfo(level) == 20

_level_to_int(level) ==
    CASE level = "info" -> 20
      [] level = "warning" -> 30
      [] level = "error" -> 40
      [] level = "debug" -> 10
      [] OTHER -> 20

\* log_event, lines 185-190: whether the tenant_id argument becomes a field
TenantArgAlways(tenant_id) == Truthy(tenant_id)

TenantArgLogged(tenant_id) == Truthy(tenant_id) /\ ALLOW_HOST_LOGGING_OF_IDS

log_event(message, request_id, tenant_id, worker_id, error, extra, level) ==
    [ message |-> message,
      levelno |-> _level_to_int(level),
      fields |->
           (IF Truthy(request_id) THEN << <<"request_id", request_id>> >> ELSE << >>)
        \o (IF TenantArgLogged(tenant_id)
            THEN << <<"tenant_id", tenant_id>> >> ELSE << >>)
        \o (IF Truthy(worker_id) THEN << <<"worker_id", worker_id>> >> ELSE << >>)
        \o (IF Truthy(error) THEN << <<"error", error>> >> ELSE << >>)
        \o _sanitize_extra(extra)
        \o (IF STRICT_NO_LOGGING_MODE
            THEN << <<"strict_no_logging", "True">> >> ELSE << >>) ]

\* the configuration every process starts with unless the environment
\* overrides it (config.py lines 86-87)
InitConfig ==
    /\ STRICT_NO_LOGGING_MODE = FALSE
    /\ ALLOW_HOST_LOGGING_OF_IDS = TRUE

\* ------------------------------------------- the Inference Worker Service
\* worker_server.py and worker_state_manager.py: the service of worker-1, its
\* RunInference calls served one at a time

WorkerCalls == 2        \* RunInference calls made to the worker
MaxNonce == 1           \* values a nonce drawn with os.urandom(12) can take
MaxRandom == 2          \* values an AES key drawn with os.urandom(32) can take

WORKER_SECRET_KEY == 0  \* config.WORKER_SECRET_KEY, the AES key of the responses
WorkerAgent == 1        \* the thread serving the worker's calls
worker_id == WorkerName(1)

Calls == 1..WorkerCalls
Nonces == 1..MaxNonce
AesKeys == 1..MaxRandom
RequestIdOf(c) == "req-" \o ToString(c)

\* exception classes, as repr(e) shows them
ReprOf(e) == e \o "(...)"

\* the payloads a caller can seal: empty, "hi", and bytes that are not UTF-8
WorkerPayloads == { << >>, << 104, 105 >>, << 255 >> }

\* the envelopes a call can carry: sealed for keypair 0 or 1, too short for
\* its header, or shorter than the key length its header declares
Envelopes ==
    { hybrid_encrypt_for_worker(p, PublicPem(k), 1, 1).value :
          p \in WorkerPayloads, k \in 0..1 }
    \cup { PlainBytes(<< 0, 0 >>), PlainBytes(<< 0, 0, 0, 9 >>) }

\* the chunks the streamer can produce: empty, whitespace, text
Chunks == { << >>, << 32 >>, << 104, 105 >> }

\* encrypt_token(token, key), encryption.py lines 320-324
encrypt_token(token, key, nonce) == encrypt_blob(encode_utf8(token), key, nonce)

\* WorkerStateManager.set_state line 21: self.state = new_state
SetStateGuarded(current, new_state) ==
    IF current = "FAILED" THEN current ELSE new_state

set_state(current, new_state) == new_state

\* set_state lines 22-27: the state-change event
StateChangeEventAnonymous(new_state, request_id) ==
    log_event("worker_state_change", request_id, NoneArg, NoneArg, NoneArg,
              << <<"state", new_state>> >>, "info")

StateChangeEvent(new_state, request_id) ==
    log_event("worker_state_change", request_id, NoneArg, worker_id, NoneArg,
              << <<"state", new_state>> >>, "info")

\* RunInference lines 156-159, the finally clause: back to READY
FinallySkipped(current) == current

FinallyReady(current) == set_state(current, "READY")

\* WorkerStateManager.get_state, line 30
get_state == state

\* the members of WorkerState (common/schemas/worker_state.py)
WorkerState ==
    { "INIT", "MODEL_LOADING", "READY", "BUSY", "STREAMING", "TEARDOWN", "FAILED" }

\* WorkerStateManager.__init__ and a service not constructed yet
InitWorker ==
    /\ state = "INIT"
    /\ states = << "INIT" >>
    /\ wlog = << >>
    /\ call = 0
    /\ request = [request_id |-> "", encrypted_blob |-> << >>]
    /\ prompt = << >>
    /\ texts = << >>
    /\ token_count = 0
    /\ emitted = << >>
    /\ status = [c \in Calls |-> "none"]

\* InferenceDispatcher.__init__ and the locals of dispatch() before a handler
\* thread has run it
InitDispatch ==
    /\ req = [a \in Agents |-> [request_id |-> "", encrypted_prompt |-> << >>,
                                prompt |-> << >>]]
    /\ req_id = [a \in Agents |-> ""]
    /\ payload = [a \in Agents |-> << >>]
    /\ encrypted_blob = [a \in Agents |-> Raise("none")]
    /\ uuids = 0
    /\ call_of = [a \in Agents |-> 0]
    /\ dlog = << >>

\* the worker once its constructor has returned and serve() has started the
\* server (worker_server.py lines 36 and 164-170)
InitWorkerReady ==
    /\ state = "READY"
    /\ states = << "INIT", "MODEL_LOADING", "READY" >>
    /\ wlog = << StateChangeEvent("MODEL_LOADING", NoneArg),
                 StateChangeEvent("READY", NoneArg) >>
    /\ wpc = "serving"
    /\ call = 0
    /\ request = [request_id |-> "", encrypted_blob |-> << >>]
    /\ prompt = << >>
    /\ texts = << >>
    /\ token_count = 0
    /\ emitted = << >>
    /\ status = [c \in Calls |-> "none"]

\* the key-custody variables a worker action leaves alone
KeyRest ==
    UNCHANGED << proc, priv_file, pub_file, _WORKER_PRIVATE_PEM,
                 _WORKER_PUBLIC_PEM, generated, nextPair, reads, writes >>

\* WorkerService.__init__ lines 25-36 and initialize_worker line 42
InitializeWorker ==
    /\ wpc = "new"
    /\ state' = set_state(state, "MODEL_LOADING")
    /\ states' = Append(states, state')
    /\ wlog' = Append(wlog, StateChangeEvent("MODEL_LOADING", NoneArg))
    /\ wpc' = "loading"
    /\ UNCHANGED << call, request, prompt, texts, token_count, emitted, status >>
    /\ UNCHANGED keyVars
    /\ UNCHANGED << pureVars, orchVars, gwVars, cfgVars, dispVars >>

\* initialize_worker lines 43-45: the model is loaded, the engine is built
ModelLoaded ==
    /\ wpc = "loading"
    /\ state' = set_state(state, "READY")
    /\ states' = Append(states, state')
    /\ wlog' = Append(wlog, StateChangeEvent("READY", NoneArg))
    /\ wpc' = "serving"
    /\ UNCHANGED << call, request, prompt, texts, token_count, emitted, status >>
    /\ UNCHANGED keyVars
    /\ UNCHANGED << pureVars, orchVars, gwVars, cfgVars, dispVars >>

\* initialize_worker line 43: model_loader.load() raises, the constructor
\* fails and serve() never starts the server
ModelLoadRaises ==
    /\ wpc = "loading"
    /\ wpc' = "dead"
    /\ UNCHANGED << state, states, wlog, call, request, prompt, texts,
                    token_count, emitted, status >>
    /\ UNCHANGED keyVars
    /\ UNCHANGED << pureVars, orchVars, gwVars, cfgVars, dispVars >>

\* RunInference lines 51-66: a call arrives with an envelope; the call event,
\* set_state(BUSY), then get_worker_private_key() is called
RunInference(request_id, blob) ==
    /\ wpc = "serving"
    /\ call < WorkerCalls
    /\ kpc[WorkerAgent] = "idle"
    /\ call' = call + 1
    /\ request' = [request_id |-> request_id, encrypted_blob |-> blob]
    /\ state' = set_state(state, "BUSY")
    /\ states' = Append(states, state')
    /\ wlog' = wlog \o
          << log_event("worker_run_inference_called", request_id,
                       NoneArg, worker_id, NoneArg, << >>, "info"),
             StateChangeEvent("BUSY", request_id) >>
    /\ prompt' = << >>
    /\ texts' = << >>
    /\ token_count' = 0
    /\ emitted' = << >>
    /\ wpc' = "decrypt"
    /\ kpc' = EnsureCalled(WorkerAgent)
    /\ UNCHANGED << status, kcalls >>
    /\ KeyRest
    /\ UNCHANGED << pureVars, orchVars, gwVars, cfgVars >>

\* line 64: the envelope opened with the private key the worker holds
Opened ==
    hybrid_decrypt_at_worker(request.encrypted_blob,
                             _WORKER_PRIVATE_PEM[proc[WorkerAgent]])

\* the key-custody call of the worker's thread has returned
KeyReturned ==
    /\ kpc[WorkerAgent] = "returned"
    /\ kpc' = [kpc EXCEPT ![WorkerAgent] = "idle"]
    /\ kcalls' = [kcalls EXCEPT ![WorkerAgent] = @ + 1]
    /\ KeyRest

\* lines 68-78: opening the envelope raises
DecryptFails ==
    /\ wpc = "decrypt"
    /\ KeyReturned
    /\ ~Opened.ok
    /\ state' = set_state(state, "FAILED")
    /\ states' = Append(states, state')
    /\ wlog' = wlog \o
          << StateChangeEvent("FAILED", request.request_id),
             log_event("decryption_failed", request.request_id, NoneArg,
                       worker_id, ReprOf(Opened.error), << >>, "error") >>
    /\ status' = [status EXCEPT ![call] = "INVALID_ARGUMENT"]
    /\ wpc' = "serving"
    /\ UNCHANGED << call, request, prompt, texts, token_count, emitted >>
    /\ UNCHANGED << pureVars, orchVars, gwVars, cfgVars, dispVars >>

\* line 80: plaintext.decode("utf-8") raises; no handler covers it, the call
\* ends with the exception
DecodeFails ==
    /\ wpc = "decrypt"
    /\ KeyReturned
    /\ Opened.ok
    /\ ~decode_utf8(Opened.value).ok
    /\ status' = [status EXCEPT ![call] = "UNKNOWN"]
    /\ wpc' = "serving"
    /\ UNCHANGED << state, states, wlog, call, request, prompt, texts,
                    token_count, emitted >>
    /\ UNCHANGED << pureVars, orchVars, gwVars, cfgVars, dispVars >>

\* lines 80-95: the prompt is decoded, inference_started, set_state(STREAMING)
StartStreaming ==
    /\ wpc = "decrypt"
    /\ KeyReturned
    /\ Opened.ok
    /\ decode_utf8(Opened.value).ok
    /\ prompt' = decode_utf8(Opened.value).value
    /\ state' = set_state(state, "STREAMING")
    /\ states' = Append(states, state')
    /\ wlog' = wlog \o
          << log_event("inference_started", request.request_id, NoneArg,
                       worker_id, NoneArg, << >>, "info"),
             StateChangeEvent("STREAMING", request.request_id) >>
    /\ wpc' = "stream"
    /\ UNCHANGED << call, request, texts, token_count, emitted, status >>
    /\ UNCHANGED << pureVars, orchVars, gwVars, cfgVars, dispVars >>

\* lines 98-104 with inference_engine.py lines 159-162: the streamer produces
\* a chunk; the engine yields it unless it is empty, and the worker encrypts
\* and yields what the engine yields
EngineText(text, nonce) ==
    /\ wpc = "stream"
    /\ Len(texts) < MaxTokens
    /\ texts' = Append(texts, text)
    /\ IF text # << >>
       THEN /\ token_count' = token_count + 1
            /\ emitted' = Append(emitted, encrypt_token(text, WORKER_SECRET_KEY, nonce))
       ELSE UNCHANGED << token_count, emitted >>
    /\ UNCHANGED << state, states, wlog, wpc, call, request, prompt, status >>
    /\ UNCHANGED keyVars
    /\ UNCHANGED << pureVars, orchVars, gwVars, cfgVars, dispVars >>

\* perf_counter() (lines 83, 100, 107): a monotonic clock, read here as the
\* time since t_start in half milliseconds
MaxTicks == 3
Ticks == 0..MaxTicks

\* line 84, t_first_token = None: no reading yet
NoReading == -1

\* int((t - t_start) * 1000): whole milliseconds, the fraction cut off
Millis(t) == t \div 2

\* lines 110-112: without a token the time to the first token is the total
FirstTokenOrStart(t_first_token, t_end) ==
    IF t_first_token = NoReading THEN 0 ELSE t_first_token

FirstTokenOrEnd(t_first_token, t_end) ==
    IF t_first_token = NoReading THEN t_end ELSE t_first_token

\* lines 116-120: float(token_count) / (total_ms / 1000.0), or 0.0; the
\* value in hundredths, rounded as the format of line 133 rounds it
tokens_per_sec(count, total_ms) ==
    IF count > 0 /\ total_ms > 0
    THEN (200000 * count + total_ms) \div (2 * total_ms)
    ELSE 0

\* f"{x:.2f}" of a value given in hundredths
Format2f(hundredths) ==
    ToString(hundredths \div 100) \o "."
       \o ToString((hundredths % 100) \div 10) \o ToString(hundredths % 10)

\* lines 123-137: the extra of the metrics event. The engine counts a prompt
\* token per character here (its tokenizer is outside the model) and an
\* output token per chunk it yields (inference_engine.py lines 76, 141, 161)
MetricsExtra(t_first_token, t_end) ==
    LET ttft_ms == Millis(FirstTokenOrEnd(t_first_token, t_end))
        total_ms == Millis(t_end)
    IN  << << "ttft_ms", ToString(ttft_ms) >>,
           << "total_ms", ToString(total_ms) >>,
           << "tokens_per_sec", Format2f(tokens_per_sec(token_count, total_ms)) >>,
           << "input_tokens", ToString(Len(prompt)) >>,
           << "output_tokens", ToString(token_count) >> >>

\* lines 106-143 and 156-159: generation is over; t_end is read, the metrics
\* and completion events are logged, then the finally clause runs.
\* t_first_token is the reading made at the first token (line 100), if there
\* was one; the clock never runs backwards
EngineEndsAt(t_first_token, t_end) ==
    /\ wpc = "stream"
    /\ (token_count = 0) <=> (t_first_token = NoReading)
    /\ t_first_token <= t_end
    /\ state' = FinallyReady(state)
    /\ states' = Append(states, state')
    /\ wlog' = wlog \o
          << log_event("inference_metrics", request.request_id, NoneArg,
                       worker_id, NoneArg,
                       MetricsExtra(t_first_token, t_end), "info"),
             log_event("inference_completed", request.request_id, NoneArg,
                       worker_id, NoneArg, << >>, "info"),
             StateChangeEvent("READY", request.request_id) >>
    /\ status' = [status EXCEPT ![call] = "OK"]
    /\ wpc' = "serving"
    /\ UNCHANGED << call, request, prompt, texts, token_count, emitted >>
    /\ UNCHANGED keyVars
    /\ UNCHANGED << pureVars, orchVars, gwVars, cfgVars, dispVars >>

\* the same for a call served within half a millisecond: every reading of
\* the clock is t_start
EngineEnds == EngineEndsAt(IF token_count = 0 THEN NoReading ELSE 0, 0)

\* the same with any readings of the clock
EngineEndsTimed ==
    \E t_first_token \in Ticks \cup { NoReading }, t_end \in Ticks :
       EngineEndsAt(t_first_token, t_end)

\* lines 145-159: the engine (or encrypt_token) raises; the error event,
\* set_state(FAILED), context.abort(INTERNAL), then the finally clause
EngineRaises ==
    /\ wpc = "stream"
    /\ state' = FinallyReady(set_state(state, "FAILED"))
    /\ states' = states \o << set_state(state, "FAILED"), state' >>
    /\ wlog' = wlog \o
          << log_event("inference_error", request.request_id, NoneArg,
                       worker_id, ReprOf("RuntimeError"), << >>, "error"),
             StateChangeEvent("FAILED", request.request_id),
             StateChangeEvent("READY", request.request_id) >>
    /\ status' = [status EXCEPT ![call] = "INTERNAL"]
    /\ wpc' = "serving"
    /\ UNCHANGED << call, request, prompt, texts, token_count, emitted >>
    /\ UNCHANGED keyVars
    /\ UNCHANGED << pureVars, orchVars, gwVars, cfgVars, dispVars >>

\* encryption.py line 324, token.encode("utf-8"): a text with a lone
\* surrogate code point (U+D800..U+DFFF) cannot be encoded
IsSurrogate(c) == c \in 55296..57343
Encodable(text) == \A i \in 1..Len(text) : ~IsSurrogate(text[i])

\* repr of a str, each character written as its code point
RECURSIVE ReprOfText(_)
ReprOfText(text) ==
    IF text = << >> THEN ""
    ELSE "\\u" \o ToString(Head(text)) \o ReprOfText(Tail(text))

\* repr(e) of the UnicodeEncodeError str.encode raises: the encoding, the
\* whole str object, and the place and reason of the failure
ReprOfEncodeError(text) ==
    "UnicodeEncodeError('utf-8', '" \o ReprOfText(text) \o "', ...)"

\* lines 98-103 and 145-159: the engine yields a chunk that encrypt_token
\* cannot encode; the chunk is counted, token.encode raises inside the try,
\* the handler logs repr(e), sets FAILED and aborts, the finally clause runs
TokenEncodeRaises(text) ==
    /\ wpc = "stream"
    /\ Len(texts) < MaxTokens
    /\ text # << >>
    /\ ~Encodable(text)
    /\ texts' = Append(texts, text)
    /\ token_count' = token_count + 1
    /\ state' = FinallyReady(set_state(state, "FAILED"))
    /\ states' = states \o << set_state(state, "FAILED"), state' >>
    /\ wlog' = wlog \o
          << log_event("inference_error", request.request_id, NoneArg,
                       worker_id, ReprOfEncodeError(text), << >>, "error"),
             StateChangeEvent("FAILED", request.request_id),
             StateChangeEvent("READY", request.request_id) >>
    /\ status' = [status EXCEPT ![call] = "INTERNAL"]
    /\ wpc' = "serving"
    /\ UNCHANGED << call, request, prompt, emitted >>
    /\ UNCHANGED keyVars
    /\ UNCHANGED << pureVars, orchVars, gwVars, cfgVars, dispVars >>

\* ------------------------------------------------ Dispatch Coordinator
\* inference_dispatcher.py: dispatch(request) run by a handler thread of the
\* Orchestration Service, and the call that carries its result to the worker

\* the handler threads of the orchestrator process
Handlers == Agents \ {WorkerAgent}

\* str(uuid.uuid4()): the n-th identifier drawn; every draw is a new value
uuid4(n) == "uuid-" \o ToString(n)

\* the InferenceRequests a caller can send: with or without a request_id,
\* with or without the raw-bytes field (here bytes that are not UTF-8), with
\* or without a prompt text (here one character outside ASCII)
DispatchRequests ==
    { [request_id |-> "",        encrypted_prompt |-> << >>,    prompt |-> <<233>>],
      [request_id |-> "req-123", encrypted_prompt |-> <<255>>,  prompt |-> <<233>>],
      [request_id |-> "req-123", encrypted_prompt |-> << >>,    prompt |-> << >>],
      [request_id |-> "",        encrypted_prompt |-> <<255>>,  prompt |-> << >>] }

\* _ensure_request_id, lines 27-34
EnsureKeepsEmpty(rq, n) == rq.request_id

_ensure_request_id(rq, n) ==
    IF ~Truthy(rq.request_id) THEN uuid4(n) ELSE rq.request_id

\* dispatch, lines 53-58: the plaintext payload
plaintext_of(rq) ==
    IF rq.encrypted_prompt # << >>
    THEN rq.encrypted_prompt
    ELSE encode_utf8(rq.prompt)

\* dispatch lines 48-63: the request id, the payload, then
\* get_worker_public_key() is called
DispatchCall(a, r) ==
    /\ dpc[a] = "idle"
    /\ kpc[a] = "idle"
    /\ req' = [req EXCEPT ![a] = r]
    /\ req_id' = [req_id EXCEPT ![a] = _ensure_request_id(r, uuids + 1)]
    /\ uuids' = IF ~Truthy(r.request_id) THEN uuids + 1 ELSE uuids
    /\ payload' = [payload EXCEPT ![a] = plaintext_of(r)]
    /\ dpc' = [dpc EXCEPT ![a] = "key"]
    /\ kpc' = EnsureCalled(a)
    /\ UNCHANGED << encrypted_blob, call_of, dlog, kcalls >>
    /\ KeyRest
    /\ UNCHANGED << pureVars, orchVars, gwVars, cfgVars, wkVars >>

\* dispatch lines 63-73: the public key is returned, the envelope is sealed
\* under a fresh AES key and nonce, the event is logged; an exception of
\* hybrid_encrypt_for_worker leaves dispatch
DispatchEncrypt(a, aes_key, nonce) ==
    /\ dpc[a] = "key"
    /\ kpc[a] = "returned"
    /\ kpc' = [kpc EXCEPT ![a] = "idle"]
    /\ kcalls' = [kcalls EXCEPT ![a] = @ + 1]
    /\ LET blob == hybrid_encrypt_for_worker(payload[a],
                       _WORKER_PUBLIC_PEM[proc[a]], aes_key, nonce)
       IN /\ encrypted_blob' = [encrypted_blob EXCEPT ![a] = blob]
          /\ IF blob.ok
             THEN /\ dlog' = Append(dlog,
                        log_event("orchestrator_encrypted_payload", req_id[a],
                                  NoneArg, NoneArg, NoneArg,
                                  << << "strict_no_logging",
                                        IF STRICT_NO_LOGGING_MODE
                                        THEN "True" ELSE "False" >> >>,
                                  "info"))
                  /\ dpc' = [dpc EXCEPT ![a] = "dispatched"]
             ELSE /\ dlog' = dlog
                  /\ dpc' = [dpc EXCEPT ![a] = "raised"]
    /\ UNCHANGED << req, req_id, payload, uuids, call_of >>
    /\ KeyRest
    /\ UNCHANGED << pureVars, orchVars, gwVars, cfgVars, wkVars >>

\* orchestrator_server.py lines 111-114 and worker_client.py lines 35-38: the
\* handler hands request_id and envelope to the worker client; the worker's
\* RunInference receives them
SendToWorker(a) ==
    /\ dpc[a] = "dispatched"
    /\ RunInference(req_id[a], encrypted_blob[a].value)
    /\ dpc' = [dpc EXCEPT ![a] = "sent"]
    /\ call_of' = [call_of EXCEPT ![a] = call + 1]
    /\ UNCHANGED << req, req_id, payload, encrypted_blob, uuids, dlog >>

\* ------------------------------------- encryption.py called on its own
\* A caller seals a payload and somebody opens what was sealed, whole or cut
\* short, or opens bytes nobody sealed.

MaxPairs == 2           \* keypairs a caller can hold

KeyPairs == 1..MaxPairs
Plaintexts == { << >>, <<0>>, <<104, 105>>, <<255, 0, 7>> }
OpenPems == { PrivatePem(k) : k \in KeyPairs } \cup { EmptyFile }
CraftedEnvelopes ==
    { PlainBytes(<<0, 0>>), PlainBytes(<<0, 0, 0, 0>>), PlainBytes(<<0, 0, 0, 9>>),
      PlainBytes(<<0, 0, 1, 0, 7, 7>>) }

\* everything outside the call made is left alone
PureRest == UNCHANGED << orchVars, gwVars, cfgVars, keyVars, wkVars, dispVars >>

\* hybrid_encrypt_for_worker(plaintext, worker_public_pem)
HybridSeal(plaintext, k, aes_key, nonce) ==
    /\ pin' = [op |-> "hybrid_encrypt_for_worker", plaintext |-> plaintext,
               worker_public_pem |-> PublicPem(k)]
    /\ pout' = hybrid_encrypt_for_worker(plaintext, PublicPem(k), aes_key, nonce)
    /\ PureRest

\* hybrid_decrypt_at_worker on the first n bytes of the envelope just sealed
HybridOpen(n, worker_private_pem) ==
    /\ pin.op = "hybrid_encrypt_for_worker"
    /\ pout.ok
    /\ n \in 0..Len(pout.value)
    /\ pin' = [op |-> "hybrid_decrypt_at_worker",
               hybrid_blob |-> Slice(pout.value, 0, n),
               worker_private_pem |-> worker_private_pem,
               sealed |-> [call |-> pin, blob |-> pout.value]]
    /\ pout' = hybrid_decrypt_trace(Slice(pout.value, 0, n), worker_private_pem)
    /\ PureRest

\* hybrid_decrypt_at_worker on bytes that no call sealed
HybridOpenCrafted(hybrid_blob, worker_private_pem) ==
    /\ pin' = [op |-> "hybrid_decrypt_at_worker",
               hybrid_blob |-> hybrid_blob,
               worker_private_pem |-> worker_private_pem,
               sealed |-> [call |-> NoCall, blob |-> << >>]]
    /\ pout' = hybrid_decrypt_trace(hybrid_blob, worker_private_pem)
    /\ PureRest

\* encrypt_blob(plaintext, key)
Seal(plaintext, key, nonce) ==
    /\ pin' = [op |-> "encrypt_blob", plaintext |-> plaintext, key |-> key]
    /\ pout' = Ok(encrypt_blob(plaintext, key, nonce))
    /\ PureRest

\* decrypt_blob on the first n bytes of the blob just sealed
Open(n, key) ==
    /\ pin.op = "encrypt_blob"
    /\ n \in 0..Len(pout.value)
    /\ pin' = [op |-> "decrypt_blob",
               encrypted_blob |-> Slice(pout.value, 0, n),
               key |-> key,
               sealed |-> [call |-> pin, blob |-> pout.value]]
    /\ pout' = decrypt_blob(Slice(pout.value, 0, n), key)
    /\ PureRest

\* ------------------------- OrchestratorService constructed on its own
\* orchestrator_server.py lines 39-72 as functions of the worker list that
\* line 44 assigns (a literal of the source: two entries as shipped)

\* the worker lists line 44 can be edited to: at most MaxPool entries
MaxPool == 3

PoolNames == { "worker-1", "worker-2", "worker-3" }
WorkerLists == UNION { [1..n -> PoolNames] : n \in 0..MaxPool }

\* __init__, lines 39-53: the service object, or RuntimeError
InitUnchecked(workers) == Ok([workers |-> workers, _rr_index |-> 0])

OrchestratorService_init(workers) ==
    IF workers = << >>
    THEN Raise("RuntimeError")
    ELSE Ok([workers |-> workers, _rr_index |-> 0])

\* _choose_worker, lines 65-72, run by one thread: the entry chosen and the
\* service after the call, or ZeroDivisionError from line 70
_choose_worker(service) ==
    IF Len(service.workers) = 0
    THEN Raise("ZeroDivisionError")
    ELSE Ok([chosen |-> service.workers[(service._rr_index % Len(service.workers)) + 1],
             service |-> [service EXCEPT
                            !._rr_index = (service._rr_index + 1) % Len(service.workers)]])

\* serve(), line 162: the process constructs its OrchestratorService
Construct(workers) ==
    /\ pin' = [op |-> "OrchestratorService", workers |-> workers]
    /\ pout' = OrchestratorService_init(workers)
    /\ PureRest

\* the service object of the process, once there is one
ServiceObject ==
    IF pin.op = "OrchestratorService" THEN pout.value ELSE pout.value.service

\* DispatchInference line 93 on the constructed service
ChooseWorker ==
    /\ pin.op \in { "OrchestratorService", "_choose_worker" }
    /\ pout.ok
    /\ pin' = [op |-> "_choose_worker", service |-> ServiceObject]
    /\ pout' = _choose_worker(ServiceObject)
    /\ PureRest

\* ---------------------------------------- log_event called on its own

\* a string of n characters
RECURSIVE StringOf(_)
StringOf(n) ==
    IF n = 0 THEN ""
    ELSE IF n % 2 = 0 THEN LET half == StringOf(n \div 2) IN half \o half
    ELSE "x" \o StringOf(n - 1)

\* the values an extra field is given: a short one, one of exactly the
\* limit, one of one character more
ShortValue == "ten chars."
LimitValue == StringOf(MaxValueLen)
LongValue == StringOf(MaxValueLen + 1)
ExtraValues == { ShortValue, LimitValue, LongValue }

\* the extra dictionaries of at most MaxExtra entries, as key/value pairs in
\* insertion order
MaxExtra == 2

ExtraItems ==
    ({ "prompt", "note" } \X ExtraValues) \cup ({ "tokens", "tenant_id" } \X { ShortValue })
Extras ==
    { extra \in UNION { [1..n -> ExtraItems] : n \in 0..MaxExtra } :
        \A i \in 1..Len(extra), j \in 1..Len(extra) :
           i # j => extra[i][1] # extra[j][1] }

LogEvent(request_id, tenant_id, extra, level) ==
    /\ pin' = [op |-> "log_event", message |-> "event", request_id |-> request_id,
               tenant_id |-> tenant_id, extra |-> extra, level |-> level]
    /\ pout' = log_event("event", request_id, tenant_id, NoneArg, NoneArg,
                         extra, level)
    /\ PureRest

\* ---------------------------------------------------- specifications
OrchStep(r) ==
    \/ ChooseLoad(r)
    \/ ChooseStore(r)
    \/ Pull(r)
    \/ Result(r)
    \/ TaskCallRaises(r)
    \/ TaskCallReturns(r)
    \/ TaskRecvToken(r)
    \/ TaskStreamEnd(r)
    \/ TaskStreamRaises(r)
    \/ GetRun(r)

\* the worker service, the key custody, the dispatch and the configuration,
\* when a specification leaves them out
InitExt ==
    /\ InitPure
    /\ InitConfig
    /\ InitKeys
    /\ InitWorker
    /\ InitDispatch
    /\ dpc = [a \in Agents |-> "absent"]
    /\ proc = [a \in Agents |-> "absent"]
    /\ kpc = [a \in Agents |-> "absent"]
    /\ wpc = "absent"

\* the orchestrator alone: MaxRequests DispatchInference calls have arrived,
\* their caller pulls every frame
Init ==
    /\ InitOrch
    /\ InitGw
    /\ hpc = [r \in Requests |-> IF r <= MaxRequests THEN "idle" ELSE "absent"]
    /\ gpc = [r \in Requests |-> "absent"]
    /\ spc = [r \in Requests |-> "absent"]
    /\ InitExt

Next == \E r \in Requests : ChooseIdx(r) \/ OrchStep(r)

\* the Orchestration Service under MaxRequests concurrent calls
Spec == Init /\ [][Next]_vars

\* the same, with the fairness the scheduling guarantees: a handler thread
\* that can take a step takes it, and the loop thread runs the callback at
\* the head of its queue once it is idle. Nothing makes a worker answer: the
\* call is made without a deadline (worker_client.py line 42), so the steps
\* that wait for the worker's stream carry no fairness
HandlerStep(r) ==
    ChooseIdx(r) \/ ChooseLoad(r) \/ ChooseStore(r) \/ Pull(r) \/ Result(r)
LoopStep(r) == TaskCallRaises(r) \/ TaskCallReturns(r) \/ GetRun(r)

SpecFair ==
    /\ Init
    /\ [][Next]_vars
    /\ \A r \in Requests : WF_vars(HandlerStep(r)) /\ WF_vars(LoopStep(r))

\* the Orchestration Service under MaxRequests concurrent calls whose
\* callers may leave before the stream has ended
NextDisconnect ==
    \E r \in Requests :
       \/ ChooseIdx(r)
       \/ OrchStep(r)
       \/ CallerDisconnects(r)
       \/ PullGone(r)
       \/ ResultGone(r)

SpecDisconnect == Init /\ [][NextDisconnect]_vars

\* DispatchInference calls made one after the other: a call is made once the
\* previous ones have returned, which serializes the access to the cursor
InitSerial ==
    /\ InitOrch
    /\ InitGw
    /\ hpc = [r \in Requests |-> IF r <= SerialRequests THEN "idle" ELSE "absent"]
    /\ gpc = [r \in Requests |-> "absent"]
    /\ spc = [r \in Requests |-> "absent"]
    /\ InitExt

ChooseIdxSerial(r) ==
    /\ \A s \in Requests \ {r} : hpc[s] \in {"idle", "done", "absent"}
    /\ ChooseIdx(r)

NextSerial == \E r \in Requests : ChooseIdxSerial(r) \/ OrchStep(r)

SpecSerial == InitSerial /\ [][NextSerial]_vars

\* end to end: /infer calls, made one after the other, through Edge Gateway,
\* Orchestration Service and worker
InitE2E ==
    /\ InitOrch
    /\ InitGw
    /\ hpc = [r \in Requests |-> IF r <= E2ERequests THEN "nocall" ELSE "absent"]
    /\ gpc = [r \in Requests |-> IF r <= E2ERequests THEN "http" ELSE "absent"]
    /\ spc = [r \in Requests |-> IF r <= E2ERequests THEN "new" ELSE "absent"]
    /\ InitExt

\* an /infer call is made once the earlier ones are over in both tiers
GatewayInferSerial(r) ==
    /\ \A s \in Requests \ {r} :
          /\ hpc[s] \in {"nocall", "done", "absent"}
          /\ gpc[s] \in {"http", "ended", "raised", "absent"}
          /\ spc[s] \in {"new", "done", "absent"}
    /\ GatewayInfer(r)

NextE2E ==
    \E r \in Requests : GatewayInferSerial(r) \/ ChooseIdx(r) \/ OrchStep(r) \/ GwStep(r)

SpecE2E == InitE2E /\ [][NextE2E]_vars

\* the same, with the fairness the scheduling guarantees: every thread that
\* can take a step takes it (the handler threads, the ORCH_LOOP thread, the
\* stream_worker threads of the executor), and the gateway's event loop runs
\* a coroutine that is ready. A suspended coroutine is not ready, and nothing
\* makes a worker answer
StreamWorkerStep(r) == GwRecv(r) \/ GwStreamEnd(r)
StreamerStep(r) == StreamerGet(r) \/ StreamerSuspend(r)

SpecE2EFair ==
    /\ InitE2E
    /\ [][NextE2E]_vars
    /\ \A r \in Requests :
          /\ WF_vars(GatewayInferSerial(r))
          /\ WF_vars(HandlerStep(r))
          /\ WF_vars(LoopStep(r))
          /\ WF_vars(StreamWorkerStep(r))
          /\ WF_vars(StreamerStep(r))

\* end to end under MaxRequests concurrent /infer calls: each call has its
\* own stream_worker thread and async_streamer coroutine in the gateway and
\* its own handler thread in the orchestrator, which share ORCH_LOOP. The
\* worker calls may fail; the connection between gateway and orchestrator
\* holds (its failure is part of SpecE2E)
InitConcurrent ==
    /\ InitOrch
    /\ InitGw
    /\ hpc = [r \in Requests |-> IF r <= MaxRequests THEN "nocall" ELSE "absent"]
    /\ gpc = [r \in Requests |-> IF r <= MaxRequests THEN "http" ELSE "absent"]
    /\ spc = [r \in Requests |-> IF r <= MaxRequests THEN "new" ELSE "absent"]
    /\ InitExt

NextConcurrent ==
    \E r \in Requests :
       \/ GatewayInfer(r)
       \/ ChooseIdx(r)
       \/ OrchStep(r)
       \/ GwRecv(r)
       \/ GwStreamEnd(r)
       \/ StreamerGet(r)
       \/ StreamerSuspend(r)

SpecConcurrent == InitConcurrent /\ [][NextConcurrent]_vars

\* no DispatchInference or /infer call is made
InitNoCalls ==
    /\ InitOrch
    /\ InitGw
    /\ hpc = [r \in Requests |-> "absent"]
    /\ gpc = [r \in Requests |-> "absent"]
    /\ spc = [r \in Requests |-> "absent"]

\* the worker service alone: worker-1 is constructed and serves WorkerCalls
\* RunInference calls one after the other, on a host where the key files
\* exist (keypair 0) or do not exist yet, in strict and in non-strict mode
InitWorkerService ==
    /\ InitNoCalls
    /\ InitPure
    /\ STRICT_NO_LOGGING_MODE \in BOOLEAN
    /\ ALLOW_HOST_LOGGING_OF_IDS = TRUE
    /\ (InitKeys \/ (Persisted /\ InitCaches))
    /\ proc = [a \in Agents |-> IF a = WorkerAgent THEN worker_id ELSE "absent"]
    /\ kpc = [a \in Agents |-> IF a = WorkerAgent THEN "idle" ELSE "absent"]
    /\ InitWorker
    /\ wpc = "new"
    /\ InitDispatch
    /\ dpc = [a \in Agents |-> "absent"]

\* a RunInference call from a caller outside the model, with any envelope
RunInferenceAny(blob) ==
    /\ RunInference(RequestIdOf(call + 1), blob)
    /\ UNCHANGED dispVars

\* what the worker does once a call was made
WorkerStep ==
    \/ DecryptFails
    \/ DecodeFails
    \/ StartStreaming
    \/ \E text \in Chunks, nonce \in Nonces : EngineText(text, nonce)
    \/ EngineEnds
    \/ EngineRaises

NextWorkerService ==
    \/ InitializeWorker
    \/ ModelLoaded
    \/ ModelLoadRaises
    \/ \E blob \in Envelopes : RunInferenceAny(blob)
    \/ WorkerStep
    \/ EnsureStep(WorkerAgent)

SpecWorkerService == InitWorkerService /\ [][NextWorkerService]_vars

\* the worker service with the readings of its clock
WorkerStepTimed ==
    \/ DecryptFails
    \/ DecodeFails
    \/ StartStreaming
    \/ \E text \in Chunks, nonce \in Nonces : EngineText(text, nonce)
    \/ EngineEndsTimed
    \/ EngineRaises

NextWorkerTimed ==
    \/ InitializeWorker
    \/ ModelLoaded
    \/ ModelLoadRaises
    \/ \E blob \in Envelopes : RunInferenceAny(blob)
    \/ WorkerStepTimed
    \/ EnsureStep(WorkerAgent)

SpecWorkerTimed == InitWorkerService /\ [][NextWorkerTimed]_vars

\* the worker service with a Generation Collaborator whose chunks are any
\* Python str, texts with a lone surrogate included
AnyChunks == { << 104, 105 >>, << 55296, 97 >>, << 55296, 98 >> }

WorkerStepAnyText ==
    \/ DecryptFails
    \/ DecodeFails
    \/ StartStreaming
    \/ \E text \in { t \in AnyChunks : Encodable(t) }, nonce \in Nonces :
          EngineText(text, nonce)
    \/ \E text \in AnyChunks : TokenEncodeRaises(text)
    \/ EngineEnds
    \/ EngineRaises

NextWorkerAnyText ==
    \/ InitializeWorker
    \/ ModelLoaded
    \/ ModelLoadRaises
    \/ \E blob \in Envelopes : RunInferenceAny(blob)
    \/ WorkerStepAnyText
    \/ EnsureStep(WorkerAgent)

SpecWorkerAnyText == InitWorkerService /\ [][NextWorkerAnyText]_vars

\* The Dispatch Coordinator and one worker: every handler thread of the
\* orchestrator process dispatches one request and sends the envelope to
\* worker-1, which has been constructed and is serving; the key files exist
\* (keypair 0) or do not exist yet.

\* the chunks the engine produces here
DispatchChunks == { <<104, 105>> }

InitDispatchService ==
    /\ InitNoCalls
    /\ InitPure
    /\ InitConfig
    /\ (InitKeys \/ (Persisted /\ InitCaches))
    /\ proc = [a \in Agents |-> IF a = WorkerAgent THEN worker_id ELSE "orchestrator"]
    /\ kpc = [a \in Agents |-> "idle"]
    /\ InitWorkerReady
    /\ InitDispatch
    /\ dpc = [a \in Agents |-> IF a = WorkerAgent THEN "absent" ELSE "idle"]

WorkerStepDispatch ==
    \/ DecryptFails
    \/ DecodeFails
    \/ StartStreaming
    \/ \E nonce \in Nonces, text \in DispatchChunks : EngineText(text, nonce)
    \/ EngineEnds
    \/ EngineRaises

NextDispatch ==
    \/ \E a \in Handlers, r \in DispatchRequests : DispatchCall(a, r)
    \/ \E a \in Agents : EnsureStep(a)
    \/ \E a \in Handlers, k \in AesKeys, n \in Nonces : DispatchEncrypt(a, k, n)
    \/ \E a \in Handlers : SendToWorker(a)
    \/ WorkerStepDispatch

SpecDispatch == InitDispatchService /\ [][NextDispatch]_vars

\* The encryption functions called on their own, with every payload, keypair,
\* AES key and nonce of the bounded sets, and every truncation of what was
\* sealed.
InitLibrary ==
    /\ InitNoCalls
    /\ InitPure
    /\ InitConfig
    /\ InitKeys
    /\ proc = [a \in Agents |-> "absent"]
    /\ kpc = [a \in Agents |-> "absent"]
    /\ InitWorker
    /\ wpc = "absent"
    /\ InitDispatch
    /\ dpc = [a \in Agents |-> "absent"]

MaxEnvelope == 4 + RsaBytes + NonceLen + 3 + TagLen

NextCrypto ==
    \/ \E plaintext \in Plaintexts, k \in KeyPairs, aes_key \in AesKeys, nonce \in Nonces :
          HybridSeal(plaintext, k, aes_key, nonce)
    \/ \E n \in 0..MaxEnvelope, pem \in OpenPems : HybridOpen(n, pem)
    \/ \E blob \in CraftedEnvelopes, pem \in OpenPems : HybridOpenCrafted(blob, pem)
    \/ \E plaintext \in Plaintexts, key \in AesKeys, nonce \in Nonces :
          Seal(plaintext, key, nonce)
    \/ \E n \in 0..MaxEnvelope, key \in AesKeys : Open(n, key)

SpecCrypto == InitLibrary /\ [][NextCrypto]_vars

\* The construction of the Orchestration Service with every worker list of
\* the bounded set, and worker selections on the service constructed.
NextConstruct ==
    \/ \E workers \in WorkerLists : Construct(workers)
    \/ ChooseWorker

SpecConstruct == InitLibrary /\ [][NextConstruct]_vars

\* log_event called on its own, in strict and non-strict mode, with the
\* id-logging flag on and off.
InitLog ==
    /\ InitNoCalls
    /\ InitPure
    /\ STRICT_NO_LOGGING_MODE \in BOOLEAN
    /\ ALLOW_HOST_LOGGING_OF_IDS \in BOOLEAN
    /\ InitKeys
    /\ proc = [a \in Agents |-> "absent"]
    /\ kpc = [a \in Agents |-> "absent"]
    /\ InitWorker
    /\ wpc = "absent"
    /\ InitDispatch
    /\ dpc = [a \in Agents |-> "absent"]

NextLog ==
    \E tenant_id \in {NoneArg, "t1"}, extra \in Extras :
       LogEvent("req-1", tenant_id, extra, "info")

SpecLog == InitLog /\ [][NextLog]_vars

\* Key custody on first run: worker-1, the orchestrator and the last worker
\* are separate processes; a thread of each calls get_worker_*_key, at any
\* time, while no key file exists yet.
ProcessOf(a) ==
    IF a = WorkerAgent THEN worker_id
    ELSE IF a = WorkerAgent + 1 THEN "orchestrator"
    ELSE WorkerName(NumWorkers)

InitKeyCallers ==
    /\ InitNoCalls
    /\ InitPure
    /\ InitConfig
    /\ InitCaches
    /\ kpc = [a \in Agents |-> "idle"]
    /\ InitWorker
    /\ wpc = "absent"
    /\ InitDispatch
    /\ dpc = [a \in Agents |-> "absent"]

InitKeysFirstRun ==
    /\ InitKeyCallers
    /\ priv_file = NoFile
    /\ pub_file = NoFile
    /\ proc = [a \in Agents |-> ProcessOf(a)]

NextKeys ==
    \/ \E a \in Agents : GetKeyCall(a)
    \/ \E a \in Agents : EnsureStep(a)
    \/ \E a \in Agents : GetKeyReturn(a)

SpecKeys == InitKeysFirstRun /\ [][NextKeys]_vars

\* Key custody with the calls made one after the other: a call starts only
\* when no other call is running. worker-1 has one thread and the orchestrator
\* the others; the key files are both there (keypair 0), both missing, or only
\* one of them is there.
InitKeysSerial ==
    /\ InitKeyCallers
    /\ priv_file \in {NoFile, PrivatePem(0)}
    /\ pub_file \in {NoFile, PublicPem(0)}
    /\ proc = [a \in Agents |-> IF a = WorkerAgent THEN worker_id ELSE "orchestrator"]

GetKeyCallSerial(a) ==
    /\ \A b \in Agents : kpc[b] = "idle"
    /\ GetKeyCall(a)

NextKeysSerial ==
    \/ \E a \in Agents : GetKeyCallSerial(a)
    \/ \E a \in Agents : EnsureStep(a)
    \/ \E a \in Agents : GetKeyReturn(a)

SpecKeysSerial == InitKeysSerial /\ [][NextKeysSerial]_vars

\* ------------------------------------------------------------ claims

Selected == {r \in Requests : idx[r] # -1}
NumSelected == Cardinality(Selected)
SelectedWorker(w) == {r \in Selected : idx[r] = w - 1}
Selecting == {r \in Requests : hpc[r] \in {"choose_load", "choose_store"}}

\* the worker call made for r is over with an error: raised when it was made
\* ("call_failed") or while its stream was iterated ("failed")
WorkerCallFailed(r) == wcall[r] \in {"call_failed", "failed"}
WorkerCallOver(r) == wcall[r] \in {"call_failed", "failed", "ended"}

\* the frames of a sequence of tokens, and the token bytes inside a frame
FramesOf(tokens) == [i \in 1..Len(tokens) |-> Frame(tokens[i])]
Payload(frame) == SubSeq(frame, 5, Len(frame))
BigEndian(b) == ((b[1] * 256 + b[2]) * 256 + b[3]) * 256 + b[4]

\* C1: with the DispatchInference calls made one at a time on a fresh
\* service, the i-th selection (i = 0, 1, ...) takes workers[i mod N]; and
\* whenever N*k selections have been made each worker was selected k times.
C1_RoundRobinSerial ==
    /\ [][\A r \in Requests :
            (idx[r] = -1 /\ idx'[r] # -1) => idx'[r] = NumSelected % NumWorkers]_vars
    /\ [](NumSelected % NumWorkers = 0 =>
            \A w \in WorkerIdx :
                Cardinality(SelectedWorker(w)) = NumSelected \div NumWorkers)

C1_Witness ==
    /\ NumSelected = SerialRequests
    /\ NumSelected > NumWorkers
    /\ \A r \in Selected : hpc[r] = "done"

\* C2 (as claimed): under concurrent calls the read-and-advance of the cursor
\* is one atomic step: once N*k selections have completed, each worker has
\* been selected exactly k times.
C2_AtomicSelection ==
    (Selecting = {} /\ NumSelected % NumWorkers = 0) =>
        \A w \in WorkerIdx :
            Cardinality(SelectedWorker(w)) = NumSelected \div NumWorkers

\* C3: at every moment each worker has at most one RunInference call of the
\* Orchestration Service in flight.
InFlight(w) == {r \in Requests : worker_of[r] = w /\ wcall[r] = "active"}

C3_OneCallPerWorker == \A w \in WorkerIdx : Cardinality(InFlight(w)) <= 1

\* two requests routed to the same worker, one call in flight, the other's
\* task handed to the loop
C3_Witness ==
    \E r, s \in Requests :
        /\ r # s
        /\ worker_of[r] = worker_of[s]
        /\ wcall[r] = "active"
        /\ tpc[s] = "scheduled"

\* C4: the frames delivered to the caller of r carry, in order, a prefix of
\* the tokens the worker streamed for r.
C4_DeliveredIsPrefix ==
    \A r \in Requests :
        /\ Len(delivered[r]) <= Len(produced[r])
        /\ \A i \in 1..Len(delivered[r]) : Payload(delivered[r][i]) = produced[r][i]

C4_Witness ==
    \E r \in Requests :
        /\ Len(delivered[r]) = 2
        /\ produced[r][1] # produced[r][2]

\* C5 (as claimed): every call whose worker call ended or raised has its
\* outward stream terminate (the handler observes the sentinel and returns),
\* whatever the other concurrent requests do.
C5_StreamTerminates ==
    \A r \in Requests : WorkerCallOver(r) ~> (hpc[r] = "done")

\* C6 (as claimed): while the task of r waits for the next token of its
\* worker, the task of a request s routed to another worker, once it is next
\* on the loop, can start its worker call, and a frame queued for s whose
\* queue.get() is next on the loop can be delivered.
C6_IndependentProgress ==
    \A r, s \in Requests :
        (r # s /\ tpc[r] = "iterate" /\ worker_of[s] # worker_of[r]
              /\ loopReady # << >>) =>
            /\ Head(loopReady) = TaskCb(s) => ENABLED TaskCallReturns(s)
            /\ (Head(loopReady) = GetCb(s) /\ queue[s] # << >>) => ENABLED GetRun(s)

C8_FrameFormat ==
    \A r \in Requests :
        /\ \A i \in 1..Len(delivered[r]) :
              LET f == delivered[r][i] IN
                /\ Len(f) = 4 + Len(produced[r][i])
                /\ BigEndian(f) = Len(produced[r][i])
                /\ \A j \in 1..4 : f[j] \in 0..255
                /\ Payload(f) = produced[r][i]
        /\ Len(httpOut[r]) <= Len(delivered[r])
        /\ \A i \in 1..Len(httpOut[r]) : httpOut[r][i] = delivered[r][i]

C8_Witness ==
    \E r \in Requests :
        /\ Len(httpOut[r]) >= 1
        /\ Len(produced[r][Len(httpOut[r])]) > 0

\* C9 (as claimed): whenever the worker call of r failed, when made or while
\* iterated, an error-severity event with the request id and the error's
\* string form has been logged.
ErrorLogged(r) ==
    \E i \in 1..Len(elog[r]) :
        /\ elog[r][i].level = "error"
        /\ elog[r][i].request_id = r
        /\ elog[r][i].error # None

C9_FailureLogged == \A r \in Requests : WorkerCallFailed(r) => ErrorLogged(r)

\* C10: when the worker call failed, the caller's stream ends normally, with
\* no error raised, after the frames of every token received before the
\* failure (possibly none).
C10_SilentTruncation ==
    \A r \in Requests :
        /\ hexit[r] # "raised"
        /\ (WorkerCallFailed(r) /\ hpc[r] = "done") =>
              /\ hexit[r] = "returned"
              /\ delivered[r] = FramesOf(produced[r])

C10_Witness ==
    \E r \in Requests :
        /\ wcall[r] = "failed" /\ hpc[r] = "done"
        /\ Len(delivered[r]) >= 1

\* ------------------------------------------- claims: the worker service

\* the value of field k of an event, NoneArg when the event has no such field
FieldOf(e, k) ==
    LET at == {i \in 1..Len(e.fields) : e.fields[i][1] = k} IN
    IF at = {} THEN NoneArg ELSE e.fields[CHOOSE i \in at : TRUE][2]

IsStateChange(e) == e.message = "worker_state_change"
IsError(e) == e.levelno = 40
OfCurrentCall(e) == FieldOf(e, "request_id") = request.request_id

StateEvents == SelectSeq(wlog, IsStateChange)
CallEvents == SelectSeq(wlog, OfCurrentCall)
StateNames(events) == [i \in 1..Len(events) |-> FieldOf(events[i], "state")]
LastN(seq, n) == SubSeq(seq, Len(seq) - n + 1, Len(seq))
CallOver == call >= 1 /\ wpc = "serving"

\* C11: once the freshly constructed worker has served its first call
\* successfully, the states it has been in are INIT, MODEL_LOADING, READY,
\* BUSY, STREAMING, READY, in this order and no other, and the state-change
\* events logged are those of the five transitions, in order.
C11_SuccessfulSequence ==
    (call = 1 /\ status[1] = "OK") =>
        /\ states = << "INIT", "MODEL_LOADING", "READY", "BUSY", "STREAMING", "READY" >>
        /\ StateNames(StateEvents) = Tail(states)

C11_Witness ==
    /\ call = 1 /\ status[1] = "OK"
    /\ Len(emitted) >= 1

\* C12: when opening the envelope of the call fails, the call is over with
\* status INVALID_ARGUMENT, the worker went BUSY -> FAILED and is left FAILED,
\* the state-change events of the call are BUSY then FAILED, exactly one
\* error event was logged for the call, and no EncryptedToken was emitted.
C12_DecryptFailure ==
    (CallOver /\ ~Opened.ok) =>
        /\ status[call] = "INVALID_ARGUMENT"
        /\ LastN(states, 2) = << "BUSY", "FAILED" >>
        /\ state = "FAILED"
        /\ StateNames(SelectSeq(CallEvents, IsStateChange)) = << "BUSY", "FAILED" >>
        /\ Len(SelectSeq(CallEvents, IsError)) = 1
        /\ emitted = << >>

C12_Witness ==
    /\ CallOver /\ ~Opened.ok
    /\ Len(request.encrypted_blob) > 4 + RsaBytes
    /\ call = 2 /\ status[1] = "OK"

\* C13: a call that leaves streaming otherwise than by the normal end of the
\* generation keeps the tokens already emitted, emits no further one, ends
\* with status INTERNAL and takes the worker STREAMING -> FAILED -> READY.
C13_GenerationFailure ==
    [][(wpc = "stream" /\ wpc' = "serving" /\ status'[call] # "OK") =>
          /\ emitted' = emitted
          /\ status'[call] = "INTERNAL"
          /\ state = "STREAMING"
          /\ states' = states \o << "FAILED", "READY" >>
          /\ state' = "READY"]_vars

C13_Witness ==
    /\ CallOver /\ status[call] = "INTERNAL"
    /\ Len(emitted) >= 1
    /\ state = "READY"

\* C14: after a failed call the worker accepts the next call whatever state
\* the failure left; when the envelope of that call opens to text the call
\* starts streaming (BUSY -> STREAMING), and when it runs to its normal end it
\* has gone BUSY -> STREAMING -> READY and has emitted one token per chunk the
\* engine yielded.
C14_SchedulableAfterFailure ==
    /\ (CallOver /\ call < WorkerCalls /\ status[call] # "OK") =>
          ENABLED (\E blob \in Envelopes : RunInferenceAny(blob))
    /\ (call >= 2 /\ status[call - 1] # "OK") =>
          /\ (/\ wpc = "decrypt" /\ kpc[WorkerAgent] = "returned"
              /\ Opened.ok /\ decode_utf8(Opened.value).ok) =>
                (ENABLED StartStreaming) /\ ~(ENABLED DecryptFails)
          /\ wpc = "stream" => LastN(states, 2) = << "BUSY", "STREAMING" >>
          /\ (CallOver /\ status[call] = "OK") =>
                /\ LastN(states, 3) = << "BUSY", "STREAMING", "READY" >>
                /\ Len(emitted) = Len(SelectSeq(texts, LAMBDA t : t # << >>))

C14_Witness ==
    /\ call = 2 /\ status[1] = "INVALID_ARGUMENT" /\ status[2] = "OK"
    /\ Len(emitted) >= 1
    /\ wpc = "serving"

\* C15: the state machine starts in INIT; set_state makes its argument the
\* current state whatever the current state is, and logs one state-change
\* event with the worker id, the request id when one is given, and the name
\* of the new state; get_state returns the state set last.
C15_StateMachine ==
    /\ states[1] = "INIT"
    /\ get_state = states[Len(states)]
    /\ Len(StateEvents) = Len(states) - 1
    /\ StateNames(StateEvents) = Tail(states)
    /\ \A cur \in WorkerState, s \in WorkerState : set_state(cur, s) = s
    /\ \A s \in WorkerState, rid \in {NoneArg, "req-1"} :
          LET e == StateChangeEvent(s, rid) IN
            /\ IsStateChange(e)
            /\ FieldOf(e, "state") = s
            /\ FieldOf(e, "worker_id") = worker_id
            /\ FieldOf(e, "request_id") = rid

C15_Witness ==
    /\ Len(states) >= 5
    /\ state = "FAILED"
    /\ STRICT_NO_LOGGING_MODE

\* the events the worker has logged since its current call arrived
CallStart ==
    LET at == {i \in 1..Len(wlog) : wlog[i].message = "worker_run_inference_called"}
    IN CHOOSE i \in at : \A j \in at : j <= i
EventsOfCall == SubSeq(wlog, CallStart, Len(wlog))
Dispatching(a) == dpc[a] \in {"key", "dispatched", "sent", "raised"}
Generated(a) == Dispatching(a) /\ ~Truthy(req[a].request_id)

\* C16: the request_id dispatch resolves is never empty: it is the caller's
\* when the caller supplied one, otherwise a generated identifier that no
\* other dispatch was given; the worker call that carries the envelope
\* receives that identifier, and every event of that call, its state-change
\* events included, carries it.
C16_RequestId ==
    \A a \in Handlers :
       Dispatching(a) =>
          /\ req_id[a] # ""
          /\ Truthy(req[a].request_id) => req_id[a] = req[a].request_id
          /\ Generated(a) =>
                /\ req_id[a] \in { uuid4(n) : n \in 1..uuids }
                /\ \A b \in Handlers \ {a} : Generated(b) => req_id[b] # req_id[a]
          /\ (dpc[a] = "sent" /\ call_of[a] = call) =>
                /\ request.request_id = req_id[a]
                /\ \A i \in 1..Len(EventsOfCall) :
                      FieldOf(EventsOfCall[i], "request_id") = req_id[a]

C16_Witness ==
    \E a \in Handlers, b \in Handlers :
       /\ a # b /\ Generated(a) /\ Generated(b)
       /\ dpc[b] = "sent" /\ call_of[b] = 1
       /\ dpc[a] = "sent" /\ call_of[a] = 2
       /\ CallOver /\ status[2] = "OK"
       /\ Len(SelectSeq(EventsOfCall, IsStateChange)) = 3

\* C17: dispatch does not raise; the envelope it returns opens, under the
\* private key the worker holds when it serves the call, to the payload of
\* the request: the raw-bytes field when it is not empty, otherwise the
\* UTF-8 encoding of the prompt.
C17_EnvelopeOpens ==
    \A a \in Handlers :
       /\ dpc[a] # "raised"
       /\ Dispatching(a) =>
             payload[a] = IF req[a].encrypted_prompt # << >>
                          THEN req[a].encrypted_prompt
                          ELSE encode_utf8(req[a].prompt)
       /\ dpc[a] \in {"dispatched", "sent"} => encrypted_blob[a].ok
       /\ (/\ dpc[a] = "sent" /\ call_of[a] = call
           /\ wpc = "decrypt" /\ kpc[WorkerAgent] = "returned") =>
             Opened = Ok(payload[a])

\* C18: the orchestrator process never holds the worker's private key: its
\* cache of the private PEM stays empty and none of its threads has
\* generated a keypair.
C18_PrivateKeyOnlyAtWorker ==
    \A a \in Handlers :
       /\ _WORKER_PRIVATE_PEM[proc[a]] = NonePem
       /\ generated[a] = -1

\* the threads of process p, and the pair a process has cached
ThreadsOf(p) == {a \in Agents : proc[a] = p}
HoldsPair(p, k) ==
    /\ _WORKER_PRIVATE_PEM[p] = PrivatePem(k)
    /\ _WORKER_PUBLIC_PEM[p] = PublicPem(k)
PersistedPair(k) == priv_file = PrivatePem(k) /\ pub_file = PublicPem(k)
AllReturned == \A a \in Agents : kpc[a] = "idle" /\ kcalls[a] >= 1
RECURSIVE SumOver(_, _)
SumOver(f, S) ==
    IF S = {} THEN 0
    ELSE LET x == CHOOSE y \in S : TRUE IN f[x] + SumOver(f, S \ {x})

\* C19: after concurrent first calls from several processes, once every
\* caller has returned, the two key files hold the halves of one keypair,
\* every process has cached that pair, and an envelope sealed with the public
\* key of any process opens with the private key of any process.
C19_FirstRunRace ==
    AllReturned =>
       /\ \E k \in 1..nextPair :
             PersistedPair(k) /\ \A a \in Agents : HoldsPair(proc[a], k)
       /\ \A a \in Agents, w \in Agents :
             LET sealed == hybrid_encrypt_for_worker(<<104, 105>>,
                              _WORKER_PUBLIC_PEM[proc[a]], 1, 1)
             IN /\ sealed.ok
                /\ hybrid_decrypt_at_worker(sealed.value,
                        _WORKER_PRIVATE_PEM[proc[w]]) = Ok(<<104, 105>>)

\* C20: with the calls made one after the other, a call returns the pair
\* that is persisted, both halves of it; a process whose first call found
\* both files has written nothing and generated nothing; otherwise the one
\* caller that found a file missing generated a new pair and wrote both
\* files; and the threads of a process read or wrote the files in its first
\* call only, whatever the number of calls made since.
C20_KeyCustody ==
    \A a \in Agents :
       kpc[a] = "returned" =>
          /\ \E k \in 0..nextPair : PersistedPair(k) /\ HoldsPair(proc[a], k)
          /\ SumOver(reads, ThreadsOf(proc[a])) + SumOver(writes, ThreadsOf(proc[a])) = 2
          /\ IF PersistedPair(0)
             THEN \A b \in Agents : writes[b] = 0 /\ generated[b] = -1
             ELSE \E b \in Agents :
                    /\ writes[b] = 2 /\ reads[b] = 0
                    /\ generated[b] = nextPair - 1
                    /\ PersistedPair(generated[b])
                    /\ \A c \in Agents \ {b} : writes[c] = 0 /\ generated[c] = -1

C20_Witness ==
    \E a \in Agents, b \in Agents :
       /\ proc[a] # proc[b]
       /\ writes[a] = 2 /\ reads[b] = 2
       /\ kcalls[b] >= 1 /\ kpc[b] = "returned"
       /\ \E c \in ThreadsOf(proc[b]) \ {b} : kcalls[c] >= 1 /\ reads[c] = 0

\* what a hybrid_decrypt_at_worker call was given
OpensWhole == pin.hybrid_blob = pin.sealed.blob
SealedFor(k) == pin.sealed.call.worker_public_pem = PublicPem(k)
DeclaredKeyLen == unpack_I(Slice(pin.hybrid_blob, 0, 4))

\* C21: an envelope sealed for the public key of a keypair, opened whole with
\* the private key of the same keypair, gives back the payload that was
\* sealed, the empty payload included.
C21_HybridRoundTrip ==
    (pin.op = "hybrid_decrypt_at_worker" /\ pin.sealed.call # NoCall /\ OpensWhole) =>
       \A k \in KeyPairs :
          (SealedFor(k) /\ pin.worker_private_pem = PrivatePem(k)) =>
             pout.result = Ok(pin.sealed.call.plaintext)

C21_Witness ==
    /\ pin.op = "hybrid_decrypt_at_worker" /\ pin.sealed.call # NoCall /\ OpensWhole
    /\ SealedFor(MaxPairs) /\ pin.worker_private_pem = PrivatePem(MaxPairs)
    /\ pin.sealed.call.plaintext = << >>
    /\ pout.result = Ok(<< >>)

\* C22: a blob sealed under an AES key, opened whole under the same key, gives
\* back the plaintext that was sealed.
C22_AeadRoundTrip ==
    (/\ pin.op = "decrypt_blob"
     /\ pin.encrypted_blob = pin.sealed.blob
     /\ pin.key = pin.sealed.call.key) =>
       pout = Ok(pin.sealed.call.plaintext)

C22_Witness ==
    /\ pin.op = "decrypt_blob"
    /\ pin.encrypted_blob = pin.sealed.blob
    /\ pin.key = pin.sealed.call.key
    /\ pin.sealed.call.plaintext = <<255, 0, 7>>
    /\ pout = Ok(<<255, 0, 7>>)

\* C23: hybrid_decrypt_at_worker raises on an envelope of fewer than 4 bytes
\* and on one of fewer than 4 bytes plus the key length its header declares,
\* and has then called neither the RSA decryption nor decrypt_blob.
C23_ShortEnvelope ==
    (/\ pin.op = "hybrid_decrypt_at_worker"
     /\ \/ Len(pin.hybrid_blob) < 4
        \/ Len(pin.hybrid_blob) < 4 + DeclaredKeyLen) =>
       /\ ~pout.result.ok
       /\ \A i \in 1..Len(pout.calls) :
             pout.calls[i] \notin {"private_key.decrypt", "decrypt_blob"}

C23_Witness ==
    /\ pin.op = "hybrid_decrypt_at_worker"
    /\ pin.worker_private_pem = PrivatePem(1)
    /\ Len(pin.hybrid_blob) = 4 + RsaBytes - 1
    /\ DeclaredKeyLen = RsaBytes
    /\ pout.result = Raise("ValueError")

\* the fields of the event with key k, and the entries of extra that are not
\* sensitive
FieldsWith(e, k) == SelectSeq(e.fields, LAMBDA f : f[1] = k)
NamedSensitive == { "prompt", "plaintext", "response", "tokens" }
NotSensitive(kv) == kv[1] \notin NamedSensitive
Logged == pin.op = "log_event"

\* C24: in every mode, an entry of extra whose key is sensitive leaves no
\* trace in the event: no field has its key, and the event is the one the
\* same call gives without the sensitive entries.
C24_SensitiveDropped ==
    Logged =>
       /\ \A i \in 1..Len(pin.extra) :
             pin.extra[i][1] \in NamedSensitive => FieldsWith(pout, pin.extra[i][1]) = << >>
       /\ pout = log_event(pin.message, pin.request_id, pin.tenant_id, NoneArg,
                           NoneArg, SelectSeq(pin.extra, NotSensitive), pin.level)

C24_Witness ==
    /\ Logged
    /\ ~STRICT_NO_LOGGING_MODE
    /\ pin.extra = << << "prompt", ShortValue >>, << "note", ShortValue >> >>
    /\ pout.fields = << << "request_id", "req-1" >>, << "note", ShortValue >> >>

\* C25: in strict mode the event has a tenant_id field, from the argument or
\* from extra, only when ids may be logged.
C25_TenantIdStrict ==
    (Logged /\ STRICT_NO_LOGGING_MODE /\ FieldsWith(pout, "tenant_id") # << >>) =>
       ALLOW_HOST_LOGGING_OF_IDS

C25_Witness ==
    /\ Logged /\ STRICT_NO_LOGGING_MODE /\ ~ALLOW_HOST_LOGGING_OF_IDS
    /\ pin.tenant_id = "t1"
    /\ pin.extra = << << "tenant_id", ShortValue >> >>
    /\ FieldsWith(pout, "tenant_id") = << >>

IsFailureEvent(e) == e.message \in { "decryption_failed", "inference_error" }
ContentFreeErrors ==
    { ReprOf(c) : c \in { "ValueError", "RuntimeError", "UnicodeEncodeError" } }
IdentifierFields == { "request_id", "worker_id", "error", "strict_no_logging" }

IsBlank(text) == \A i \in 1..Len(text) : text[i] \in { 9, 10, 13, 32 }
NotBlank(text) == ~IsBlank(text)

\* C28: the tokens emitted by the call are the chunks of the engine that are
\* neither empty nor whitespace-only, one token each and in the order of
\* production, and the chunk count of the metrics is the number of tokens.
C28_TokensPerChunk ==
    /\ Len(emitted) = Len(SelectSeq(texts, NotBlank))
    /\ token_count = Len(emitted)

\* C29: constructing the service with an empty worker list raises, and no
\* worker selection is ever made on a service whose list is empty.
C29_EmptyPoolFatal ==
    /\ (pin.op = "OrchestratorService" /\ pin.workers = << >>) =>
          (~pout.ok /\ pout.error = "RuntimeError" /\ ~(ENABLED ChooseWorker))
    /\ pin.op = "_choose_worker" => pin.service.workers # << >>

C29_Witness ==
    /\ pin.op = "OrchestratorService"
    /\ pin.workers = << >>
    /\ pout = Raise("RuntimeError")

\* everything pushed onto the handoff queue of r so far, in the order of the
\* pushes: what the handler has taken (the frames it yielded, and the
\* sentinel if it has returned), the item held by frame_future, and what is
\* still queued
PushedTo(r) ==
    delivered[r]
       \o (IF hexit[r] = "returned" THEN << None >> ELSE << >>)
       \o (IF future[r] # Pending THEN << future[r] >> ELSE << >>)
       \o queue[r]
SentinelsIn(pushed) == { i \in 1..Len(pushed) : pushed[i] = None }

\* C30: once the bridging task of a request is over, whichever way the worker
\* call went, exactly one sentinel was pushed onto the request's queue and
\* it is the last item pushed; before that no sentinel was pushed.
C30_OneSentinel ==
    \A r \in Requests :
       LET pushed == PushedTo(r) IN
          IF tpc[r] = "done"
          THEN SentinelsIn(pushed) = { Len(pushed) }
          ELSE SentinelsIn(pushed) = { }

C30_Witness ==
    \E r1, r2 \in Requests :
       /\ tpc[r1] = "done" /\ wcall[r1] = "failed" /\ produced[r1] # << >>
       /\ tpc[r2] = "done" /\ wcall[r2] = "call_failed"
       /\ SentinelsIn(PushedTo(r1)) = { Len(produced[r1]) + 1 }
       /\ PushedTo(r2) = << None >>

\* ------------------------------- claims: bridges under concurrent calls

\* C39: under any interleaving of concurrent selections the cursor is at
\* least 0 and less than the pool size, and so is the index every selection
\* uses on the worker list.
C39_CursorInRange ==
    /\ rr_index \in 0..(NumWorkers - 1)
    /\ \A r \in Requests :
          /\ idx[r] # -1 => idx[r] \in 0..(NumWorkers - 1)
          /\ tmp[r] # -1 => tmp[r] \in 0..(NumWorkers - 1)
          /\ worker_of[r] # 0 => worker_of[r] \in WorkerIdx

\* two selections interleaved so that both loaded the cursor before either
\* stored it, and both stores done
C39_Witness ==
    \E r, s \in Requests :
       /\ r # s
       /\ worker_of[r] = worker_of[s] /\ worker_of[r] # 0
       /\ rr_index = 1

\* C37: whenever a RunInference call has ended, by whatever path, and no
\* other call is in flight, the state of the worker is READY or FAILED.
C37_NeverLeftBusy ==
    CallOver => state \in { "READY", "FAILED" }

\* C32 (as claimed): whenever the worker of r has streamed a token and is
\* still generating while the caller of r waits for a frame, a frame of r is
\* delivered to the caller, whether or not the worker's stream ever ends.
C32_IncrementalStreaming ==
    \A r \in Requests :
       (wcall[r] = "active" /\ produced[r] # << >> /\ hpc[r] = "wait")
          ~> (delivered[r] # << >>)

\* the caller of r left before the stream had ended
Gone(r) == hpc[r] \in { "pull_gone", "wait_gone" } \/ hexit[r] = "closed"
\* what is on the way to the handler of r: the item held by frame_future and
\* the items still queued
Undelivered(r) ==
    (IF future[r] # Pending THEN << future[r] >> ELSE << >>) \o queue[r]

\* C33: after the caller of r has left, the bridging task of r goes on as if
\* the caller were there: once next on the loop it starts the worker call,
\* while it iterates it can take the next token and the end of the stream
\* whatever is queued already, and once it is over the sentinel has been
\* pushed, last, behind the frames nobody takes any more.
C33_TaskRunsOnAfterDisconnect ==
    \A r \in Requests :
       Gone(r) =>
          /\ (tpc[r] = "scheduled" /\ LoopIdle /\ loopReady # << >>
                 /\ Head(loopReady) = TaskCb(r)) => ENABLED TaskCallReturns(r)
          /\ tpc[r] = "iterate" =>
                /\ ENABLED TaskStreamEnd(r)
                /\ Len(produced[r]) < MaxTokens => ENABLED TaskRecvToken(r)
          /\ tpc[r] = "done" =>
                /\ Undelivered(r) # << >>
                /\ SentinelsIn(Undelivered(r)) = { Len(Undelivered(r)) }

\* the caller left while the worker was streaming; the task took every token
\* and the sentinel lies behind frames that nobody takes
C33_Witness ==
    \E r \in Requests :
       /\ hexit[r] = "closed"
       /\ tpc[r] = "done" /\ wcall[r] = "ended"
       /\ Len(produced[r]) = MaxTokens
       /\ Len(queue[r]) >= 2

\* the positions of the request-completion event among the events of r
CompletionEvents(r) ==
    { i \in 1..Len(elog[r]) : elog[r][i].event = "orchestrator_request_completed" }

\* the request-completion event was emitted at most once, and then the handler
\* had taken the sentinel (the bridging task is over, nothing is left on the
\* way to the handler) and had yielded every frame of the request; it is the
\* last event of the request
CompletionAfterAll(r) ==
    /\ Cardinality(CompletionEvents(r)) <= 1
    /\ CompletionEvents(r) # { } =>
          /\ CompletionEvents(r) = { Len(elog[r]) }
          /\ hexit[r] = "returned"
          /\ tpc[r] = "done" /\ Undelivered(r) = << >>
          /\ delivered[r] = FramesOf(produced[r])

\* C34 (as claimed): the request-completion event of a request is emitted
\* exactly once by every call that is over, whether the worker call failed
\* or not, only after the sentinel was observed and after every frame of the
\* request was yielded.
C34_CompletionOnceAfterAll ==
    \A r \in Requests :
       /\ CompletionAfterAll(r)
       /\ hpc[r] = "done" => Cardinality(CompletionEvents(r)) = 1

\* C34 (amended): as claimed for every call whose generator ran to the
\* sentinel; a call whose generator was closed at a yield, after its caller
\* had left, has emitted no request-completion event.
C34_CompletionOnceUnlessClosed ==
    \A r \in Requests :
       /\ CompletionAfterAll(r)
       /\ hpc[r] = "done" =>
             Cardinality(CompletionEvents(r)) = (IF hexit[r] = "closed" THEN 0 ELSE 1)

\* one call whose worker failed after a token and one whose worker ended its
\* stream, both completed
C34_Witness ==
    \E r1, r2 \in Requests :
       /\ wcall[r1] = "failed" /\ produced[r1] # << >>
       /\ wcall[r2] = "ended" /\ Len(produced[r2]) = MaxTokens
       /\ CompletionEvents(r1) # { } /\ CompletionEvents(r2) # { }

\* what the stream_worker thread of r has taken from the response stream
TakenByGateway(r) == SubSeq(delivered[r], 1, gidx[r])
\* the items of a queue that are not the sentinel
DataItems(q) == SelectSeq(q, LAMBDA item : item # None)

\* C40: in both bridges the stream ends only on the sentinel and a token of
\* zero length is delivered as an item like any other. A DispatchInference
\* generator that returned had taken the sentinel, pushed last by the task,
\* and had yielded the frame of every token, the empty ones included; an
\* async_streamer that ended had taken the sentinel put by stream_worker and
\* had yielded every chunk stream_worker took; until then every chunk taken
\* is either yielded or still queued.
C40_OnlySentinelEnds ==
    \A r \in Requests :
       /\ hexit[r] = "returned" =>
             /\ tpc[r] = "done" /\ Undelivered(r) = << >>
             /\ delivered[r] = FramesOf(produced[r])
       /\ httpOut[r] \o DataItems(gwqueue[r]) = TakenByGateway(r)
       /\ spc[r] = "done" =>
             /\ gpc[r] \in { "ended", "raised" } /\ gwqueue[r] = << >>
             /\ httpOut[r] = TakenByGateway(r)

\* a worker streamed a token of zero length before its last token; both were
\* yielded by the orchestrator and by the gateway, and both streams ended
C40_Witness ==
    \E r \in Requests :
       /\ \E i \in 1..(Len(produced[r]) - 1) : produced[r][i] = << >>
       /\ hexit[r] = "returned" /\ gpc[r] = "ended" /\ spc[r] = "done"
       /\ httpOut[r] = FramesOf(produced[r])

IsPrefixOf(p, q) == Len(p) <= Len(q) /\ p = SubSeq(q, 1, Len(p))

\* C38: under concurrent requests every item on its way to the caller of r
\* is the frame of a token the worker call of r produced, in its place: what
\* DispatchInference yielded for r, and what the gateway yielded to the HTTP
\* caller of r, are the first frames of r's own worker stream, and so is all
\* that was pushed to r's queue or put on r's gateway queue.
C38_NoMixing ==
    \A r \in Requests :
       /\ IsPrefixOf(delivered[r], FramesOf(produced[r]))
       /\ IsPrefixOf(httpOut[r], FramesOf(produced[r]))
       /\ IsPrefixOf(DataItems(PushedTo(r)), FramesOf(produced[r]))
       /\ IsPrefixOf(httpOut[r] \o DataItems(gwqueue[r]), FramesOf(produced[r]))

\* two calls that were given the same worker, both in the middle of their
\* streams: each caller has its first chunk and waits for the second
C38_Witness ==
    \E r, s \in Requests :
       /\ r # s /\ worker_of[r] = worker_of[s]
       /\ Len(produced[r]) = MaxTokens /\ Len(produced[s]) = MaxTokens
       /\ Len(httpOut[r]) = 1 /\ Len(httpOut[s]) = 1
       /\ hpc[r] = "wait" /\ hpc[s] = "wait"

\* C31 (as claimed): once the stream_worker thread of an /infer call has put
\* the sentinel, because the orchestrator stream ended or raised, the
\* async_streamer of the call dequeues it and the HTTP response ends.
C31_SentinelEndsResponse ==
    \A r \in Requests :
       (gpc[r] \in { "ended", "raised" }) ~> (spc[r] = "done")

RECURSIVE BytesIn(_)
\* the sum of the lengths of the chunks of a sequence
BytesIn(chunks) ==
    IF chunks = << >> THEN 0 ELSE Len(Head(chunks)) + BytesIn(Tail(chunks))

GatewayEvents(r, message) ==
    { i \in 1..Len(glog[r]) : glog[r][i].event = message }

\* C35: while an /infer call streams, its counters are the number of chunks
\* yielded to the HTTP caller and the sum of their lengths; the completion
\* event and the metrics event are emitted by a response stream that is
\* over and by no other, once each, completion first, and the metrics event
\* carries these two counts as they are after the last chunk, the same when
\* the orchestrator stream failed.
C35_CountsAndEventsOnce ==
    \A r \in Requests :
       /\ frame_count[r] = Len(httpOut[r])
       /\ total_bytes[r] = BytesIn(httpOut[r])
       /\ IF spc[r] = "done"
          THEN glog[r] =
                 << GatewayEvent("gateway_streaming_completed", r, << >>),
                    GatewayEvent("gateway_end_to_end_metrics", r,
                       << << "frames", ToString(Len(httpOut[r])) >>,
                          << "bytes", ToString(BytesIn(httpOut[r])) >> >>) >>
          ELSE glog[r] = << >>

\* a response stream that is over after the orchestrator stream failed with
\* one chunk of six bytes through: both events logged, 1 frame, 6 bytes
C35_Witness ==
    \E r \in Requests :
       /\ gpc[r] = "raised" /\ spc[r] = "done"
       /\ Len(httpOut[r]) = 1 /\ Len(glog[r]) = 2
       /\ glog[r][2].extra = << << "frames", "1" >>, << "bytes", "6" >> >>

\* the metrics events of the worker's log, and those of the call numbered c
IsMetrics(e) == e.message = "inference_metrics"
MetricsOf(c) ==
    { i \in 1..Len(wlog) :
         IsMetrics(wlog[i]) /\ FieldOf(wlog[i], "request_id") = RequestIdOf(c) }
\* the number a field of an event shows
NumberIn(e, k) == CHOOSE n \in 0..(MaxTicks + MaxTokens) : ToString(n) = FieldOf(e, k)

\* C36: a RunInference call that ended normally has emitted exactly one
\* metrics event, a call that failed (or has not ended) none; in every
\* metrics event the time to the first chunk is at most the total latency,
\* and equal to it when no chunk was produced, and the throughput is 0.00
\* whenever the chunk count is 0 or the total latency is 0.
C36_MetricsOnceAndConsistent ==
    /\ \A c \in Calls :
          Cardinality(MetricsOf(c)) = (IF status[c] = "OK" THEN 1 ELSE 0)
    /\ \A i \in 1..Len(wlog) :
          IsMetrics(wlog[i]) =>
             LET ttft_ms == NumberIn(wlog[i], "ttft_ms")
                 total_ms == NumberIn(wlog[i], "total_ms")
                 count == NumberIn(wlog[i], "output_tokens")
             IN  /\ ttft_ms <= total_ms
                 /\ count = 0 => ttft_ms = total_ms
                 /\ (count = 0 \/ total_ms = 0) =>
                       FieldOf(wlog[i], "tokens_per_sec") = "0.00"

\* a call that failed while streaming and emitted no metrics event, and a
\* call that ended normally without a chunk after a millisecond: its event
\* shows a time to the first chunk of 1 ms, the total, and throughput 0.00
C36_Witness ==
    \E c1, c2 \in Calls :
       /\ status[c1] = "INTERNAL" /\ MetricsOf(c1) = { }
       /\ status[c2] = "OK"
       /\ \E i \in MetricsOf(c2) :
             /\ FieldOf(wlog[i], "output_tokens") = "0"
             /\ FieldOf(wlog[i], "ttft_ms") = "1"
             /\ FieldOf(wlog[i], "total_ms") = "1"
             /\ FieldOf(wlog[i], "tokens_per_sec") = "0.00"

====
